---- MODULE Spec2Model ----
(***************************************************************************)
(* The enrichment pipeline of finshots_final.py: the text functions        *)
(* (extract_text_from_html, tokenize_words, sentence_count,                *)
(* estimate_syllables, flesch_reading_ease, simple_sentiment,              *)
(* top_keywords, extract_entities_simple) as operators on strings, and     *)
(* main() as a state machine over the three CSV files and the in-memory    *)
(* table.                                                                  *)
(*                                                                         *)
(* A string is a TLA+ string, indexed from 1.  The alphabet of the model   *)
(* is ASCII without NUL and the grave accent (no TLA+ string holds them).  *)
(* Where the code would produce a character outside this alphabet (a       *)
(* character reference such as &nbsp; or &#233;), the operator has no      *)
(* value: see Undefined.                                                   *)
(***************************************************************************)
EXTENDS Integers, Sequences, FiniteSets, TLC

(***************************************************************************)
(* Characters                                                              *)
(***************************************************************************)
Ch(s, i) == SubSeq(s, i, i)

CharsOf(s) == { Ch(s, i) : i \in 1..Len(s) }

LOWERS == "abcdefghijklmnopqrstuvwxyz"

UPPERS == "ABCDEFGHIJKLMNOPQRSTUVWXYZ"

DIGITS == "0123456789"

\* the characters of the codes 1 to 95, and of the codes 97 to 127
ASCII_1_95 ==
    "\t\n\f\r !\"#$%&'()*+,-./0123456789:;<=>?@ABCDEFGHIJKLMNOPQRSTUVWXYZ[\\]^_"

ASCII_97_127 == "abcdefghijklmnopqrstuvwxyz{|}~"

LowerSet == CharsOf(LOWERS)

UpperSet == CharsOf(UPPERS)

DigitSet == CharsOf(DIGITS)

HexSet == DigitSet \cup CharsOf("abcdefABCDEF")

\* the ASCII characters c with c.isspace(): what str.strip() and
\* str.split() take for white space, and \s of the re module on a str:
\* space, \t, \n, \r, \f, VT (11), FS, GS, RS, US (28-31)
SpaceSet ==
    {" ", "\t", "\n", "\r", "\f", "", "", "", "", ""}

\* \w of the re module, on ASCII text (what \b is defined by)
WordSet == LowerSet \cup UpperSet \cup DigitSet \cup {"_"}

LowerCh(c) ==
    IF c \in UpperSet
    THEN Ch(LOWERS, CHOOSE i \in 1..26 : Ch(UPPERS, i) = c)
    ELSE c

\* What the model has no value for: a character outside its alphabet (what
\* is its code), the result of a call that raises (what is the exception).
\* The evaluation of an expression that needs it fails.
Undefined(what) == CHOOSE v \in {} : v = what

\* chr(n)
Chr(n) ==
    IF n >= 1 /\ n <= 95 THEN Ch(ASCII_1_95, n)
    ELSE IF n >= 97 /\ n <= 127 THEN Ch(ASCII_97_127, n - 96)
    ELSE Undefined(n)

\* F applied to the value of e.  An operator evaluates an argument each
\* time it uses it; With evaluates e once, and F is given the value.  The
\* operators below that scan a string are given values in this way.
With(e, F(_)) == CHOOSE r \in { F(v) : v \in {e} } : TRUE

Min(S) == With(S, LAMBDA T : CHOOSE m \in T : \A n \in T : m <= n)

Max(S) == With(S, LAMBDA T : CHOOSE m \in T : \A n \in T : n <= m)

\* the number of bits of n: the least k with n < 2^k
RECURSIVE BitLen(_)
BitLen(n) == IF n < 1 THEN 0 ELSE 1 + BitLen(n \div 2)

\* while not Done(st): st = Step(st), for at most 2^k steps.  The loop is
\* cut in halves so that a long loop does not nest deeply.
RECURSIVE Iterate(_, _, _, _)
Iterate(Step(_), Done(_), k, st) ==
    IF Done(st) THEN st
    ELSE IF k = 0 THEN Step(st)
    ELSE With(Iterate(Step, Done, k - 1, st),
              LAMBDA half : Iterate(Step, Done, k - 1, half))

\* while not Done(st): st = Step(st), for a loop of at most n steps
While(Step(_), Done(_), st, n) ==
    With(st, LAMBDA v : Iterate(Step, Done, BitLen(n), v))

\* F(lo) \o ... \o F(hi): what a left-to-right pass over the characters
\* builds when each position's output depends on its neighbours only
RECURSIVE ConcatMap(_, _, _)
ConcatMap(F(_), lo, hi) ==
    IF lo > hi THEN ""
    ELSE IF lo = hi THEN F(lo)
    ELSE With((lo + hi) \div 2,
              LAMBDA mid : ConcatMap(F, lo, mid) \o ConcatMap(F, mid + 1, hi))

\* F(lo) + ... + F(hi)
RECURSIVE SumMap(_, _, _)
SumMap(F(_), lo, hi) ==
    IF lo > hi THEN 0
    ELSE IF lo = hi THEN F(lo)
    ELSE With((lo + hi) \div 2,
              LAMBDA mid : SumMap(F, lo, mid) + SumMap(F, mid + 1, hi))

\* str.lower()
Lower(s) == With(s, LAMBDA v : ConcatMap(LAMBDA i : LowerCh(Ch(v, i)), 1, Len(v)))

\* s[i-1:].startswith(p), case-insensitively (re.I), 1-based i, p in
\* lower case and not empty
StartsAtI(s, i, p) ==
    /\ i + Len(p) - 1 <= Len(s)
    /\ LowerCh(Ch(s, i)) = Ch(p, 1)
    /\ Lower(SubSeq(s, i, i + Len(p) - 1)) = p

\* the least j >= i with s[j] in the set cs, or 0
FindCh(s, i, cs) ==
    With({ j \in i..Len(s) : Ch(s, j) \in cs },
         LAMBDA js : IF js = {} THEN 0 ELSE Min(js))

\* the least j >= i with s[j] not in the set cs, or Len(s) + 1
FindNotCh(s, i, cs) ==
    With({ j \in i..Len(s) : Ch(s, j) \notin cs },
         LAMBDA js : IF js = {} THEN Len(s) + 1 ELSE Min(js))

\* the least j >= i where p starts (case-insensitively), or 0
FindStr(s, i, p) ==
    With({ j \in i..(Len(s) - Len(p) + 1) : StartsAtI(s, j, p) },
         LAMBDA js : IF js = {} THEN 0 ELSE Min(js))

\* s.strip(chars)
StripSet(s, cs) ==
    With(s, LAMBDA v :
        With({ j \in 1..Len(v) : Ch(v, j) \notin cs },
             LAMBDA bs : IF bs = {} THEN "" ELSE SubSeq(v, Min(bs), Max(bs))))

\* str.strip()
Strip(s) == StripSet(s, SpaceSet)

\* s with the characters of the set cs removed
Remove(s, cs) ==
    With(s, LAMBDA v :
        ConcatMap(LAMBDA i : IF Ch(v, i) \in cs THEN "" ELSE Ch(v, i), 1, Len(v)))

\* s.split(c): the parts of s between the occurrences of the character c
Split(s, c) ==
    With(s, LAMBDA v :
        With({0, Len(v) + 1} \cup { j \in 1..Len(v) : Ch(v, j) = c }, LAMBDA cuts :
            LET nth(k) == CHOOSE p \in cuts : Cardinality({ q \in cuts : q < p }) = k
            IN  [ k \in 1..(Cardinality(cuts) - 1) |->
                    SubSeq(v, nth(k - 1) + 1, nth(k) - 1) ]))

\* the value of a digit of base 10 or 16
DigitValue(c) ==
    IF c \in DigitSet THEN (CHOOSE k \in 1..10 : Ch(DIGITS, k) = c) - 1
    ELSE (CHOOSE k \in 1..6 : Ch("abcdef", k) = LowerCh(c)) + 9

\* the value in the base of the digits of d from the i-th on, acc being the
\* value of those before, or cap + 1 when it is more
RECURSIVE DigitsValue(_, _, _, _, _)
DigitsValue(d, base, cap, i, acc) ==
    IF acc > cap THEN cap + 1
    ELSE IF i > Len(d) THEN acc
    ELSE With(acc * base + DigitValue(Ch(d, i)),
              LAMBDA acc1 : DigitsValue(d, base, cap, i + 1, acc1))

\* sys.int_info.default_max_str_digits: int() of a decimal numeral of more
\* digits (leading zeros counted) raises ValueError
MaxStrDigits == 4300

\* int(d, base) for the bases 10 and 16, or cap + 1 when it is more
IntOf(d, base, cap) ==
    With(d, LAMBDA v :
        IF base = 10 /\ Len(v) > MaxStrDigits THEN Undefined("ValueError")
        ELSE With(FindNotCh(v, 1, {"0"}), LAMBDA z : DigitsValue(v, base, cap, z, 0)))

(***************************************************************************)
(* html.unescape                                                           *)
(***************************************************************************)
\* the names of html.entities.html5
Html5Names ==
    {"AElig", "AElig;", "AMP", "AMP;", "Aacute", "Aacute;", "Abreve;",
     "Acirc", "Acirc;", "Acy;", "Afr;", "Agrave", "Agrave;", "Alpha;",
     "Amacr;", "And;", "Aogon;", "Aopf;", "ApplyFunction;", "Aring", "Aring;",
     "Ascr;", "Assign;", "Atilde", "Atilde;", "Auml", "Auml;", "Backslash;",
     "Barv;", "Barwed;", "Bcy;", "Because;", "Bernoullis;", "Beta;", "Bfr;",
     "Bopf;", "Breve;", "Bscr;", "Bumpeq;", "CHcy;", "COPY", "COPY;",
     "Cacute;", "Cap;", "CapitalDifferentialD;", "Cayleys;", "Ccaron;",
     "Ccedil", "Ccedil;", "Ccirc;", "Cconint;", "Cdot;", "Cedilla;",
     "CenterDot;", "Cfr;", "Chi;", "CircleDot;", "CircleMinus;",
     "CirclePlus;", "CircleTimes;", "ClockwiseContourIntegral;",
     "CloseCurlyDoubleQuote;", "CloseCurlyQuote;", "Colon;", "Colone;",
     "Congruent;", "Conint;", "ContourIntegral;", "Copf;", "Coproduct;",
     "CounterClockwiseContourIntegral;", "Cross;", "Cscr;", "Cup;", "CupCap;",
     "DD;", "DDotrahd;", "DJcy;", "DScy;", "DZcy;", "Dagger;", "Darr;",
     "Dashv;", "Dcaron;", "Dcy;", "Del;", "Delta;", "Dfr;",
     "DiacriticalAcute;", "DiacriticalDot;", "DiacriticalDoubleAcute;",
     "DiacriticalGrave;", "DiacriticalTilde;", "Diamond;", "DifferentialD;",
     "Dopf;", "Dot;", "DotDot;", "DotEqual;", "DoubleContourIntegral;",
     "DoubleDot;", "DoubleDownArrow;", "DoubleLeftArrow;",
     "DoubleLeftRightArrow;", "DoubleLeftTee;", "DoubleLongLeftArrow;",
     "DoubleLongLeftRightArrow;", "DoubleLongRightArrow;",
     "DoubleRightArrow;", "DoubleRightTee;", "DoubleUpArrow;",
     "DoubleUpDownArrow;", "DoubleVerticalBar;", "DownArrow;",
     "DownArrowBar;", "DownArrowUpArrow;", "DownBreve;",
     "DownLeftRightVector;", "DownLeftTeeVector;", "DownLeftVector;",
     "DownLeftVectorBar;", "DownRightTeeVector;", "DownRightVector;",
     "DownRightVectorBar;", "DownTee;", "DownTeeArrow;", "Downarrow;",
     "Dscr;", "Dstrok;", "ENG;", "ETH", "ETH;", "Eacute", "Eacute;",
     "Ecaron;", "Ecirc", "Ecirc;", "Ecy;", "Edot;", "Efr;", "Egrave",
     "Egrave;", "Element;", "Emacr;", "EmptySmallSquare;",
     "EmptyVerySmallSquare;", "Eogon;", "Eopf;", "Epsilon;", "Equal;",
     "EqualTilde;", "Equilibrium;", "Escr;", "Esim;", "Eta;", "Euml", "Euml;",
     "Exists;", "ExponentialE;", "Fcy;", "Ffr;", "FilledSmallSquare;",
     "FilledVerySmallSquare;", "Fopf;", "ForAll;", "Fouriertrf;", "Fscr;",
     "GJcy;", "GT", "GT;", "Gamma;", "Gammad;", "Gbreve;", "Gcedil;",
     "Gcirc;", "Gcy;", "Gdot;", "Gfr;", "Gg;", "Gopf;", "GreaterEqual;",
     "GreaterEqualLess;", "GreaterFullEqual;", "GreaterGreater;",
     "GreaterLess;", "GreaterSlantEqual;", "GreaterTilde;", "Gscr;", "Gt;",
     "HARDcy;", "Hacek;", "Hat;", "Hcirc;", "Hfr;", "HilbertSpace;", "Hopf;",
     "HorizontalLine;", "Hscr;", "Hstrok;", "HumpDownHump;", "HumpEqual;",
     "IEcy;", "IJlig;", "IOcy;", "Iacute", "Iacute;", "Icirc", "Icirc;",
     "Icy;", "Idot;", "Ifr;", "Igrave", "Igrave;", "Im;", "Imacr;",
     "ImaginaryI;", "Implies;", "Int;", "Integral;", "Intersection;",
     "InvisibleComma;", "InvisibleTimes;", "Iogon;", "Iopf;", "Iota;",
     "Iscr;", "Itilde;", "Iukcy;", "Iuml", "Iuml;", "Jcirc;", "Jcy;", "Jfr;",
     "Jopf;", "Jscr;", "Jsercy;", "Jukcy;", "KHcy;", "KJcy;", "Kappa;",
     "Kcedil;", "Kcy;", "Kfr;", "Kopf;", "Kscr;", "LJcy;", "LT", "LT;",
     "Lacute;", "Lambda;", "Lang;", "Laplacetrf;", "Larr;", "Lcaron;",
     "Lcedil;", "Lcy;", "LeftAngleBracket;", "LeftArrow;", "LeftArrowBar;",
     "LeftArrowRightArrow;", "LeftCeiling;", "LeftDoubleBracket;",
     "LeftDownTeeVector;", "LeftDownVector;", "LeftDownVectorBar;",
     "LeftFloor;", "LeftRightArrow;", "LeftRightVector;", "LeftTee;",
     "LeftTeeArrow;", "LeftTeeVector;", "LeftTriangle;", "LeftTriangleBar;",
     "LeftTriangleEqual;", "LeftUpDownVector;", "LeftUpTeeVector;",
     "LeftUpVector;", "LeftUpVectorBar;", "LeftVector;", "LeftVectorBar;",
     "Leftarrow;", "Leftrightarrow;", "LessEqualGreater;", "LessFullEqual;",
     "LessGreater;", "LessLess;", "LessSlantEqual;", "LessTilde;", "Lfr;",
     "Ll;", "Lleftarrow;", "Lmidot;", "LongLeftArrow;", "LongLeftRightArrow;",
     "LongRightArrow;", "Longleftarrow;", "Longleftrightarrow;",
     "Longrightarrow;", "Lopf;", "LowerLeftArrow;", "LowerRightArrow;",
     "Lscr;", "Lsh;", "Lstrok;", "Lt;", "Map;", "Mcy;", "MediumSpace;",
     "Mellintrf;", "Mfr;", "MinusPlus;", "Mopf;", "Mscr;", "Mu;", "NJcy;",
     "Nacute;", "Ncaron;", "Ncedil;", "Ncy;", "NegativeMediumSpace;",
     "NegativeThickSpace;", "NegativeThinSpace;", "NegativeVeryThinSpace;",
     "NestedGreaterGreater;", "NestedLessLess;", "NewLine;", "Nfr;",
     "NoBreak;", "NonBreakingSpace;", "Nopf;", "Not;", "NotCongruent;",
     "NotCupCap;", "NotDoubleVerticalBar;", "NotElement;", "NotEqual;",
     "NotEqualTilde;", "NotExists;", "NotGreater;", "NotGreaterEqual;",
     "NotGreaterFullEqual;", "NotGreaterGreater;", "NotGreaterLess;",
     "NotGreaterSlantEqual;", "NotGreaterTilde;", "NotHumpDownHump;",
     "NotHumpEqual;", "NotLeftTriangle;", "NotLeftTriangleBar;",
     "NotLeftTriangleEqual;", "NotLess;", "NotLessEqual;", "NotLessGreater;",
     "NotLessLess;", "NotLessSlantEqual;", "NotLessTilde;",
     "NotNestedGreaterGreater;", "NotNestedLessLess;", "NotPrecedes;",
     "NotPrecedesEqual;", "NotPrecedesSlantEqual;", "NotReverseElement;",
     "NotRightTriangle;", "NotRightTriangleBar;", "NotRightTriangleEqual;",
     "NotSquareSubset;", "NotSquareSubsetEqual;", "NotSquareSuperset;",
     "NotSquareSupersetEqual;", "NotSubset;", "NotSubsetEqual;",
     "NotSucceeds;", "NotSucceedsEqual;", "NotSucceedsSlantEqual;",
     "NotSucceedsTilde;", "NotSuperset;", "NotSupersetEqual;", "NotTilde;",
     "NotTildeEqual;", "NotTildeFullEqual;", "NotTildeTilde;",
     "NotVerticalBar;", "Nscr;", "Ntilde", "Ntilde;", "Nu;", "OElig;",
     "Oacute", "Oacute;", "Ocirc", "Ocirc;", "Ocy;", "Odblac;", "Ofr;",
     "Ograve", "Ograve;", "Omacr;", "Omega;", "Omicron;", "Oopf;",
     "OpenCurlyDoubleQuote;", "OpenCurlyQuote;", "Or;", "Oscr;", "Oslash",
     "Oslash;", "Otilde", "Otilde;", "Otimes;", "Ouml", "Ouml;", "OverBar;",
     "OverBrace;", "OverBracket;", "OverParenthesis;", "PartialD;", "Pcy;",
     "Pfr;", "Phi;", "Pi;", "PlusMinus;", "Poincareplane;", "Popf;", "Pr;",
     "Precedes;", "PrecedesEqual;", "PrecedesSlantEqual;", "PrecedesTilde;",
     "Prime;", "Product;", "Proportion;", "Proportional;", "Pscr;", "Psi;",
     "QUOT", "QUOT;", "Qfr;", "Qopf;", "Qscr;", "RBarr;", "REG", "REG;",
     "Racute;", "Rang;", "Rarr;", "Rarrtl;", "Rcaron;", "Rcedil;", "Rcy;",
     "Re;", "ReverseElement;", "ReverseEquilibrium;", "ReverseUpEquilibrium;",
     "Rfr;", "Rho;", "RightAngleBracket;", "RightArrow;", "RightArrowBar;",
     "RightArrowLeftArrow;", "RightCeiling;", "RightDoubleBracket;",
     "RightDownTeeVector;", "RightDownVector;", "RightDownVectorBar;",
     "RightFloor;", "RightTee;", "RightTeeArrow;", "RightTeeVector;",
     "RightTriangle;", "RightTriangleBar;", "RightTriangleEqual;",
     "RightUpDownVector;", "RightUpTeeVector;", "RightUpVector;",
     "RightUpVectorBar;", "RightVector;", "RightVectorBar;", "Rightarrow;",
     "Ropf;", "RoundImplies;", "Rrightarrow;", "Rscr;", "Rsh;",
     "RuleDelayed;", "SHCHcy;", "SHcy;", "SOFTcy;", "Sacute;", "Sc;",
     "Scaron;", "Scedil;", "Scirc;", "Scy;", "Sfr;", "ShortDownArrow;",
     "ShortLeftArrow;", "ShortRightArrow;", "ShortUpArrow;", "Sigma;",
     "SmallCircle;", "Sopf;", "Sqrt;", "Square;", "SquareIntersection;",
     "SquareSubset;", "SquareSubsetEqual;", "SquareSuperset;",
     "SquareSupersetEqual;", "SquareUnion;", "Sscr;", "Star;", "Sub;",
     "Subset;", "SubsetEqual;", "Succeeds;", "SucceedsEqual;",
     "SucceedsSlantEqual;", "SucceedsTilde;", "SuchThat;", "Sum;", "Sup;",
     "Superset;", "SupersetEqual;", "Supset;", "THORN", "THORN;", "TRADE;",
     "TSHcy;", "TScy;", "Tab;", "Tau;", "Tcaron;", "Tcedil;", "Tcy;", "Tfr;",
     "Therefore;", "Theta;", "ThickSpace;", "ThinSpace;", "Tilde;",
     "TildeEqual;", "TildeFullEqual;", "TildeTilde;", "Topf;", "TripleDot;",
     "Tscr;", "Tstrok;", "Uacute", "Uacute;", "Uarr;", "Uarrocir;", "Ubrcy;",
     "Ubreve;", "Ucirc", "Ucirc;", "Ucy;", "Udblac;", "Ufr;", "Ugrave",
     "Ugrave;", "Umacr;", "UnderBar;", "UnderBrace;", "UnderBracket;",
     "UnderParenthesis;", "Union;", "UnionPlus;", "Uogon;", "Uopf;",
     "UpArrow;", "UpArrowBar;", "UpArrowDownArrow;", "UpDownArrow;",
     "UpEquilibrium;", "UpTee;", "UpTeeArrow;", "Uparrow;", "Updownarrow;",
     "UpperLeftArrow;", "UpperRightArrow;", "Upsi;", "Upsilon;", "Uring;",
     "Uscr;", "Utilde;", "Uuml", "Uuml;", "VDash;", "Vbar;", "Vcy;", "Vdash;",
     "Vdashl;", "Vee;", "Verbar;", "Vert;", "VerticalBar;", "VerticalLine;",
     "VerticalSeparator;", "VerticalTilde;", "VeryThinSpace;", "Vfr;",
     "Vopf;", "Vscr;", "Vvdash;", "Wcirc;", "Wedge;", "Wfr;", "Wopf;",
     "Wscr;", "Xfr;", "Xi;", "Xopf;", "Xscr;", "YAcy;", "YIcy;", "YUcy;",
     "Yacute", "Yacute;", "Ycirc;", "Ycy;", "Yfr;", "Yopf;", "Yscr;", "Yuml;",
     "ZHcy;", "Zacute;", "Zcaron;", "Zcy;", "Zdot;", "ZeroWidthSpace;",
     "Zeta;", "Zfr;", "Zopf;", "Zscr;", "aacute", "aacute;", "abreve;", "ac;",
     "acE;", "acd;", "acirc", "acirc;", "acute", "acute;", "acy;", "aelig",
     "aelig;", "af;", "afr;", "agrave", "agrave;", "alefsym;", "aleph;",
     "alpha;", "amacr;", "amalg;", "amp", "amp;", "and;", "andand;", "andd;",
     "andslope;", "andv;", "ang;", "ange;", "angle;", "angmsd;", "angmsdaa;",
     "angmsdab;", "angmsdac;", "angmsdad;", "angmsdae;", "angmsdaf;",
     "angmsdag;", "angmsdah;", "angrt;", "angrtvb;", "angrtvbd;", "angsph;",
     "angst;", "angzarr;", "aogon;", "aopf;", "ap;", "apE;", "apacir;",
     "ape;", "apid;", "apos;", "approx;", "approxeq;", "aring", "aring;",
     "ascr;", "ast;", "asymp;", "asympeq;", "atilde", "atilde;", "auml",
     "auml;", "awconint;", "awint;", "bNot;", "backcong;", "backepsilon;",
     "backprime;", "backsim;", "backsimeq;", "barvee;", "barwed;",
     "barwedge;", "bbrk;", "bbrktbrk;", "bcong;", "bcy;", "bdquo;", "becaus;",
     "because;", "bemptyv;", "bepsi;", "bernou;", "beta;", "beth;",
     "between;", "bfr;", "bigcap;", "bigcirc;", "bigcup;", "bigodot;",
     "bigoplus;", "bigotimes;", "bigsqcup;", "bigstar;", "bigtriangledown;",
     "bigtriangleup;", "biguplus;", "bigvee;", "bigwedge;", "bkarow;",
     "blacklozenge;", "blacksquare;", "blacktriangle;", "blacktriangledown;",
     "blacktriangleleft;", "blacktriangleright;", "blank;", "blk12;",
     "blk14;", "blk34;", "block;", "bne;", "bnequiv;", "bnot;", "bopf;",
     "bot;", "bottom;", "bowtie;", "boxDL;", "boxDR;", "boxDl;", "boxDr;",
     "boxH;", "boxHD;", "boxHU;", "boxHd;", "boxHu;", "boxUL;", "boxUR;",
     "boxUl;", "boxUr;", "boxV;", "boxVH;", "boxVL;", "boxVR;", "boxVh;",
     "boxVl;", "boxVr;", "boxbox;", "boxdL;", "boxdR;", "boxdl;", "boxdr;",
     "boxh;", "boxhD;", "boxhU;", "boxhd;", "boxhu;", "boxminus;", "boxplus;",
     "boxtimes;", "boxuL;", "boxuR;", "boxul;", "boxur;", "boxv;", "boxvH;",
     "boxvL;", "boxvR;", "boxvh;", "boxvl;", "boxvr;", "bprime;", "breve;",
     "brvbar", "brvbar;", "bscr;", "bsemi;", "bsim;", "bsime;", "bsol;",
     "bsolb;", "bsolhsub;", "bull;", "bullet;", "bump;", "bumpE;", "bumpe;",
     "bumpeq;", "cacute;", "cap;", "capand;", "capbrcup;", "capcap;",
     "capcup;", "capdot;", "caps;", "caret;", "caron;", "ccaps;", "ccaron;",
     "ccedil", "ccedil;", "ccirc;", "ccups;", "ccupssm;", "cdot;", "cedil",
     "cedil;", "cemptyv;", "cent", "cent;", "centerdot;", "cfr;", "chcy;",
     "check;", "checkmark;", "chi;", "cir;", "cirE;", "circ;", "circeq;",
     "circlearrowleft;", "circlearrowright;", "circledR;", "circledS;",
     "circledast;", "circledcirc;", "circleddash;", "cire;", "cirfnint;",
     "cirmid;", "cirscir;", "clubs;", "clubsuit;", "colon;", "colone;",
     "coloneq;", "comma;", "commat;", "comp;", "compfn;", "complement;",
     "complexes;", "cong;", "congdot;", "conint;", "copf;", "coprod;", "copy",
     "copy;", "copysr;", "crarr;", "cross;", "cscr;", "csub;", "csube;",
     "csup;", "csupe;", "ctdot;", "cudarrl;", "cudarrr;", "cuepr;", "cuesc;",
     "cularr;", "cularrp;", "cup;", "cupbrcap;", "cupcap;", "cupcup;",
     "cupdot;", "cupor;", "cups;", "curarr;", "curarrm;", "curlyeqprec;",
     "curlyeqsucc;", "curlyvee;", "curlywedge;", "curren", "curren;",
     "curvearrowleft;", "curvearrowright;", "cuvee;", "cuwed;", "cwconint;",
     "cwint;", "cylcty;", "dArr;", "dHar;", "dagger;", "daleth;", "darr;",
     "dash;", "dashv;", "dbkarow;", "dblac;", "dcaron;", "dcy;", "dd;",
     "ddagger;", "ddarr;", "ddotseq;", "deg", "deg;", "delta;", "demptyv;",
     "dfisht;", "dfr;", "dharl;", "dharr;", "diam;", "diamond;",
     "diamondsuit;", "diams;", "die;", "digamma;", "disin;", "div;", "divide",
     "divide;", "divideontimes;", "divonx;", "djcy;", "dlcorn;", "dlcrop;",
     "dollar;", "dopf;", "dot;", "doteq;", "doteqdot;", "dotminus;",
     "dotplus;", "dotsquare;", "doublebarwedge;", "downarrow;",
     "downdownarrows;", "downharpoonleft;", "downharpoonright;", "drbkarow;",
     "drcorn;", "drcrop;", "dscr;", "dscy;", "dsol;", "dstrok;", "dtdot;",
     "dtri;", "dtrif;", "duarr;", "duhar;", "dwangle;", "dzcy;", "dzigrarr;",
     "eDDot;", "eDot;", "eacute", "eacute;", "easter;", "ecaron;", "ecir;",
     "ecirc", "ecirc;", "ecolon;", "ecy;", "edot;", "ee;", "efDot;", "efr;",
     "eg;", "egrave", "egrave;", "egs;", "egsdot;", "el;", "elinters;",
     "ell;", "els;", "elsdot;", "emacr;", "empty;", "emptyset;", "emptyv;",
     "emsp13;", "emsp14;", "emsp;", "eng;", "ensp;", "eogon;", "eopf;",
     "epar;", "eparsl;", "eplus;", "epsi;", "epsilon;", "epsiv;", "eqcirc;",
     "eqcolon;", "eqsim;", "eqslantgtr;", "eqslantless;", "equals;",
     "equest;", "equiv;", "equivDD;", "eqvparsl;", "erDot;", "erarr;",
     "escr;", "esdot;", "esim;", "eta;", "eth", "eth;", "euml", "euml;",
     "euro;", "excl;", "exist;", "expectation;", "exponentiale;",
     "fallingdotseq;", "fcy;", "female;", "ffilig;", "fflig;", "ffllig;",
     "ffr;", "filig;", "fjlig;", "flat;", "fllig;", "fltns;", "fnof;",
     "fopf;", "forall;", "fork;", "forkv;", "fpartint;", "frac12", "frac12;",
     "frac13;", "frac14", "frac14;", "frac15;", "frac16;", "frac18;",
     "frac23;", "frac25;", "frac34", "frac34;", "frac35;", "frac38;",
     "frac45;", "frac56;", "frac58;", "frac78;", "frasl;", "frown;", "fscr;",
     "gE;", "gEl;", "gacute;", "gamma;", "gammad;", "gap;", "gbreve;",
     "gcirc;", "gcy;", "gdot;", "ge;", "gel;", "geq;", "geqq;", "geqslant;",
     "ges;", "gescc;", "gesdot;", "gesdoto;", "gesdotol;", "gesl;", "gesles;",
     "gfr;", "gg;", "ggg;", "gimel;", "gjcy;", "gl;", "glE;", "gla;", "glj;",
     "gnE;", "gnap;", "gnapprox;", "gne;", "gneq;", "gneqq;", "gnsim;",
     "gopf;", "grave;", "gscr;", "gsim;", "gsime;", "gsiml;", "gt", "gt;",
     "gtcc;", "gtcir;", "gtdot;", "gtlPar;", "gtquest;", "gtrapprox;",
     "gtrarr;", "gtrdot;", "gtreqless;", "gtreqqless;", "gtrless;", "gtrsim;",
     "gvertneqq;", "gvnE;", "hArr;", "hairsp;", "half;", "hamilt;", "hardcy;",
     "harr;", "harrcir;", "harrw;", "hbar;", "hcirc;", "hearts;",
     "heartsuit;", "hellip;", "hercon;", "hfr;", "hksearow;", "hkswarow;",
     "hoarr;", "homtht;", "hookleftarrow;", "hookrightarrow;", "hopf;",
     "horbar;", "hscr;", "hslash;", "hstrok;", "hybull;", "hyphen;", "iacute",
     "iacute;", "ic;", "icirc", "icirc;", "icy;", "iecy;", "iexcl", "iexcl;",
     "iff;", "ifr;", "igrave", "igrave;", "ii;", "iiiint;", "iiint;",
     "iinfin;", "iiota;", "ijlig;", "imacr;", "image;", "imagline;",
     "imagpart;", "imath;", "imof;", "imped;", "in;", "incare;", "infin;",
     "infintie;", "inodot;", "int;", "intcal;", "integers;", "intercal;",
     "intlarhk;", "intprod;", "iocy;", "iogon;", "iopf;", "iota;", "iprod;",
     "iquest", "iquest;", "iscr;", "isin;", "isinE;", "isindot;", "isins;",
     "isinsv;", "isinv;", "it;", "itilde;", "iukcy;", "iuml", "iuml;",
     "jcirc;", "jcy;", "jfr;", "jmath;", "jopf;", "jscr;", "jsercy;",
     "jukcy;", "kappa;", "kappav;", "kcedil;", "kcy;", "kfr;", "kgreen;",
     "khcy;", "kjcy;", "kopf;", "kscr;", "lAarr;", "lArr;", "lAtail;",
     "lBarr;", "lE;", "lEg;", "lHar;", "lacute;", "laemptyv;", "lagran;",
     "lambda;", "lang;", "langd;", "langle;", "lap;", "laquo", "laquo;",
     "larr;", "larrb;", "larrbfs;", "larrfs;", "larrhk;", "larrlp;",
     "larrpl;", "larrsim;", "larrtl;", "lat;", "latail;", "late;", "lates;",
     "lbarr;", "lbbrk;", "lbrace;", "lbrack;", "lbrke;", "lbrksld;",
     "lbrkslu;", "lcaron;", "lcedil;", "lceil;", "lcub;", "lcy;", "ldca;",
     "ldquo;", "ldquor;", "ldrdhar;", "ldrushar;", "ldsh;", "le;",
     "leftarrow;", "leftarrowtail;", "leftharpoondown;", "leftharpoonup;",
     "leftleftarrows;", "leftrightarrow;", "leftrightarrows;",
     "leftrightharpoons;", "leftrightsquigarrow;", "leftthreetimes;", "leg;",
     "leq;", "leqq;", "leqslant;", "les;", "lescc;", "lesdot;", "lesdoto;",
     "lesdotor;", "lesg;", "lesges;", "lessapprox;", "lessdot;", "lesseqgtr;",
     "lesseqqgtr;", "lessgtr;", "lesssim;", "lfisht;", "lfloor;", "lfr;",
     "lg;", "lgE;", "lhard;", "lharu;", "lharul;", "lhblk;", "ljcy;", "ll;",
     "llarr;", "llcorner;", "llhard;", "lltri;", "lmidot;", "lmoust;",
     "lmoustache;", "lnE;", "lnap;", "lnapprox;", "lne;", "lneq;", "lneqq;",
     "lnsim;", "loang;", "loarr;", "lobrk;", "longleftarrow;",
     "longleftrightarrow;", "longmapsto;", "longrightarrow;",
     "looparrowleft;", "looparrowright;", "lopar;", "lopf;", "loplus;",
     "lotimes;", "lowast;", "lowbar;", "loz;", "lozenge;", "lozf;", "lpar;",
     "lparlt;", "lrarr;", "lrcorner;", "lrhar;", "lrhard;", "lrm;", "lrtri;",
     "lsaquo;", "lscr;", "lsh;", "lsim;", "lsime;", "lsimg;", "lsqb;",
     "lsquo;", "lsquor;", "lstrok;", "lt", "lt;", "ltcc;", "ltcir;", "ltdot;",
     "lthree;", "ltimes;", "ltlarr;", "ltquest;", "ltrPar;", "ltri;",
     "ltrie;", "ltrif;", "lurdshar;", "luruhar;", "lvertneqq;", "lvnE;",
     "mDDot;", "macr", "macr;", "male;", "malt;", "maltese;", "map;",
     "mapsto;", "mapstodown;", "mapstoleft;", "mapstoup;", "marker;",
     "mcomma;", "mcy;", "mdash;", "measuredangle;", "mfr;", "mho;", "micro",
     "micro;", "mid;", "midast;", "midcir;", "middot", "middot;", "minus;",
     "minusb;", "minusd;", "minusdu;", "mlcp;", "mldr;", "mnplus;", "models;",
     "mopf;", "mp;", "mscr;", "mstpos;", "mu;", "multimap;", "mumap;", "nGg;",
     "nGt;", "nGtv;", "nLeftarrow;", "nLeftrightarrow;", "nLl;", "nLt;",
     "nLtv;", "nRightarrow;", "nVDash;", "nVdash;", "nabla;", "nacute;",
     "nang;", "nap;", "napE;", "napid;", "napos;", "napprox;", "natur;",
     "natural;", "naturals;", "nbsp", "nbsp;", "nbump;", "nbumpe;", "ncap;",
     "ncaron;", "ncedil;", "ncong;", "ncongdot;", "ncup;", "ncy;", "ndash;",
     "ne;", "neArr;", "nearhk;", "nearr;", "nearrow;", "nedot;", "nequiv;",
     "nesear;", "nesim;", "nexist;", "nexists;", "nfr;", "ngE;", "nge;",
     "ngeq;", "ngeqq;", "ngeqslant;", "nges;", "ngsim;", "ngt;", "ngtr;",
     "nhArr;", "nharr;", "nhpar;", "ni;", "nis;", "nisd;", "niv;", "njcy;",
     "nlArr;", "nlE;", "nlarr;", "nldr;", "nle;", "nleftarrow;",
     "nleftrightarrow;", "nleq;", "nleqq;", "nleqslant;", "nles;", "nless;",
     "nlsim;", "nlt;", "nltri;", "nltrie;", "nmid;", "nopf;", "not", "not;",
     "notin;", "notinE;", "notindot;", "notinva;", "notinvb;", "notinvc;",
     "notni;", "notniva;", "notnivb;", "notnivc;", "npar;", "nparallel;",
     "nparsl;", "npart;", "npolint;", "npr;", "nprcue;", "npre;", "nprec;",
     "npreceq;", "nrArr;", "nrarr;", "nrarrc;", "nrarrw;", "nrightarrow;",
     "nrtri;", "nrtrie;", "nsc;", "nsccue;", "nsce;", "nscr;", "nshortmid;",
     "nshortparallel;", "nsim;", "nsime;", "nsimeq;", "nsmid;", "nspar;",
     "nsqsube;", "nsqsupe;", "nsub;", "nsubE;", "nsube;", "nsubset;",
     "nsubseteq;", "nsubseteqq;", "nsucc;", "nsucceq;", "nsup;", "nsupE;",
     "nsupe;", "nsupset;", "nsupseteq;", "nsupseteqq;", "ntgl;", "ntilde",
     "ntilde;", "ntlg;", "ntriangleleft;", "ntrianglelefteq;",
     "ntriangleright;", "ntrianglerighteq;", "nu;", "num;", "numero;",
     "numsp;", "nvDash;", "nvHarr;", "nvap;", "nvdash;", "nvge;", "nvgt;",
     "nvinfin;", "nvlArr;", "nvle;", "nvlt;", "nvltrie;", "nvrArr;",
     "nvrtrie;", "nvsim;", "nwArr;", "nwarhk;", "nwarr;", "nwarrow;",
     "nwnear;", "oS;", "oacute", "oacute;", "oast;", "ocir;", "ocirc",
     "ocirc;", "ocy;", "odash;", "odblac;", "odiv;", "odot;", "odsold;",
     "oelig;", "ofcir;", "ofr;", "ogon;", "ograve", "ograve;", "ogt;",
     "ohbar;", "ohm;", "oint;", "olarr;", "olcir;", "olcross;", "oline;",
     "olt;", "omacr;", "omega;", "omicron;", "omid;", "ominus;", "oopf;",
     "opar;", "operp;", "oplus;", "or;", "orarr;", "ord;", "order;",
     "orderof;", "ordf", "ordf;", "ordm", "ordm;", "origof;", "oror;",
     "orslope;", "orv;", "oscr;", "oslash", "oslash;", "osol;", "otilde",
     "otilde;", "otimes;", "otimesas;", "ouml", "ouml;", "ovbar;", "par;",
     "para", "para;", "parallel;", "parsim;", "parsl;", "part;", "pcy;",
     "percnt;", "period;", "permil;", "perp;", "pertenk;", "pfr;", "phi;",
     "phiv;", "phmmat;", "phone;", "pi;", "pitchfork;", "piv;", "planck;",
     "planckh;", "plankv;", "plus;", "plusacir;", "plusb;", "pluscir;",
     "plusdo;", "plusdu;", "pluse;", "plusmn", "plusmn;", "plussim;",
     "plustwo;", "pm;", "pointint;", "popf;", "pound", "pound;", "pr;",
     "prE;", "prap;", "prcue;", "pre;", "prec;", "precapprox;",
     "preccurlyeq;", "preceq;", "precnapprox;", "precneqq;", "precnsim;",
     "precsim;", "prime;", "primes;", "prnE;", "prnap;", "prnsim;", "prod;",
     "profalar;", "profline;", "profsurf;", "prop;", "propto;", "prsim;",
     "prurel;", "pscr;", "psi;", "puncsp;", "qfr;", "qint;", "qopf;",
     "qprime;", "qscr;", "quaternions;", "quatint;", "quest;", "questeq;",
     "quot", "quot;", "rAarr;", "rArr;", "rAtail;", "rBarr;", "rHar;",
     "race;", "racute;", "radic;", "raemptyv;", "rang;", "rangd;", "range;",
     "rangle;", "raquo", "raquo;", "rarr;", "rarrap;", "rarrb;", "rarrbfs;",
     "rarrc;", "rarrfs;", "rarrhk;", "rarrlp;", "rarrpl;", "rarrsim;",
     "rarrtl;", "rarrw;", "ratail;", "ratio;", "rationals;", "rbarr;",
     "rbbrk;", "rbrace;", "rbrack;", "rbrke;", "rbrksld;", "rbrkslu;",
     "rcaron;", "rcedil;", "rceil;", "rcub;", "rcy;", "rdca;", "rdldhar;",
     "rdquo;", "rdquor;", "rdsh;", "real;", "realine;", "realpart;", "reals;",
     "rect;", "reg", "reg;", "rfisht;", "rfloor;", "rfr;", "rhard;", "rharu;",
     "rharul;", "rho;", "rhov;", "rightarrow;", "rightarrowtail;",
     "rightharpoondown;", "rightharpoonup;", "rightleftarrows;",
     "rightleftharpoons;", "rightrightarrows;", "rightsquigarrow;",
     "rightthreetimes;", "ring;", "risingdotseq;", "rlarr;", "rlhar;", "rlm;",
     "rmoust;", "rmoustache;", "rnmid;", "roang;", "roarr;", "robrk;",
     "ropar;", "ropf;", "roplus;", "rotimes;", "rpar;", "rpargt;",
     "rppolint;", "rrarr;", "rsaquo;", "rscr;", "rsh;", "rsqb;", "rsquo;",
     "rsquor;", "rthree;", "rtimes;", "rtri;", "rtrie;", "rtrif;",
     "rtriltri;", "ruluhar;", "rx;", "sacute;", "sbquo;", "sc;", "scE;",
     "scap;", "scaron;", "sccue;", "sce;", "scedil;", "scirc;", "scnE;",
     "scnap;", "scnsim;", "scpolint;", "scsim;", "scy;", "sdot;", "sdotb;",
     "sdote;", "seArr;", "searhk;", "searr;", "searrow;", "sect", "sect;",
     "semi;", "seswar;", "setminus;", "setmn;", "sext;", "sfr;", "sfrown;",
     "sharp;", "shchcy;", "shcy;", "shortmid;", "shortparallel;", "shy",
     "shy;", "sigma;", "sigmaf;", "sigmav;", "sim;", "simdot;", "sime;",
     "simeq;", "simg;", "simgE;", "siml;", "simlE;", "simne;", "simplus;",
     "simrarr;", "slarr;", "smallsetminus;", "smashp;", "smeparsl;", "smid;",
     "smile;", "smt;", "smte;", "smtes;", "softcy;", "sol;", "solb;",
     "solbar;", "sopf;", "spades;", "spadesuit;", "spar;", "sqcap;",
     "sqcaps;", "sqcup;", "sqcups;", "sqsub;", "sqsube;", "sqsubset;",
     "sqsubseteq;", "sqsup;", "sqsupe;", "sqsupset;", "sqsupseteq;", "squ;",
     "square;", "squarf;", "squf;", "srarr;", "sscr;", "ssetmn;", "ssmile;",
     "sstarf;", "star;", "starf;", "straightepsilon;", "straightphi;",
     "strns;", "sub;", "subE;", "subdot;", "sube;", "subedot;", "submult;",
     "subnE;", "subne;", "subplus;", "subrarr;", "subset;", "subseteq;",
     "subseteqq;", "subsetneq;", "subsetneqq;", "subsim;", "subsub;",
     "subsup;", "succ;", "succapprox;", "succcurlyeq;", "succeq;",
     "succnapprox;", "succneqq;", "succnsim;", "succsim;", "sum;", "sung;",
     "sup1", "sup1;", "sup2", "sup2;", "sup3", "sup3;", "sup;", "supE;",
     "supdot;", "supdsub;", "supe;", "supedot;", "suphsol;", "suphsub;",
     "suplarr;", "supmult;", "supnE;", "supne;", "supplus;", "supset;",
     "supseteq;", "supseteqq;", "supsetneq;", "supsetneqq;", "supsim;",
     "supsub;", "supsup;", "swArr;", "swarhk;", "swarr;", "swarrow;",
     "swnwar;", "szlig", "szlig;", "target;", "tau;", "tbrk;", "tcaron;",
     "tcedil;", "tcy;", "tdot;", "telrec;", "tfr;", "there4;", "therefore;",
     "theta;", "thetasym;", "thetav;", "thickapprox;", "thicksim;", "thinsp;",
     "thkap;", "thksim;", "thorn", "thorn;", "tilde;", "times", "times;",
     "timesb;", "timesbar;", "timesd;", "tint;", "toea;", "top;", "topbot;",
     "topcir;", "topf;", "topfork;", "tosa;", "tprime;", "trade;",
     "triangle;", "triangledown;", "triangleleft;", "trianglelefteq;",
     "triangleq;", "triangleright;", "trianglerighteq;", "tridot;", "trie;",
     "triminus;", "triplus;", "trisb;", "tritime;", "trpezium;", "tscr;",
     "tscy;", "tshcy;", "tstrok;", "twixt;", "twoheadleftarrow;",
     "twoheadrightarrow;", "uArr;", "uHar;", "uacute", "uacute;", "uarr;",
     "ubrcy;", "ubreve;", "ucirc", "ucirc;", "ucy;", "udarr;", "udblac;",
     "udhar;", "ufisht;", "ufr;", "ugrave", "ugrave;", "uharl;", "uharr;",
     "uhblk;", "ulcorn;", "ulcorner;", "ulcrop;", "ultri;", "umacr;", "uml",
     "uml;", "uogon;", "uopf;", "uparrow;", "updownarrow;", "upharpoonleft;",
     "upharpoonright;", "uplus;", "upsi;", "upsih;", "upsilon;",
     "upuparrows;", "urcorn;", "urcorner;", "urcrop;", "uring;", "urtri;",
     "uscr;", "utdot;", "utilde;", "utri;", "utrif;", "uuarr;", "uuml",
     "uuml;", "uwangle;", "vArr;", "vBar;", "vBarv;", "vDash;", "vangrt;",
     "varepsilon;", "varkappa;", "varnothing;", "varphi;", "varpi;",
     "varpropto;", "varr;", "varrho;", "varsigma;", "varsubsetneq;",
     "varsubsetneqq;", "varsupsetneq;", "varsupsetneqq;", "vartheta;",
     "vartriangleleft;", "vartriangleright;", "vcy;", "vdash;", "vee;",
     "veebar;", "veeeq;", "vellip;", "verbar;", "vert;", "vfr;", "vltri;",
     "vnsub;", "vnsup;", "vopf;", "vprop;", "vrtri;", "vscr;", "vsubnE;",
     "vsubne;", "vsupnE;", "vsupne;", "vzigzag;", "wcirc;", "wedbar;",
     "wedge;", "wedgeq;", "weierp;", "wfr;", "wopf;", "wp;", "wr;", "wreath;",
     "wscr;", "xcap;", "xcirc;", "xcup;", "xdtri;", "xfr;", "xhArr;",
     "xharr;", "xi;", "xlArr;", "xlarr;", "xmap;", "xnis;", "xodot;", "xopf;",
     "xoplus;", "xotime;", "xrArr;", "xrarr;", "xscr;", "xsqcup;", "xuplus;",
     "xutri;", "xvee;", "xwedge;", "yacute", "yacute;", "yacy;", "ycirc;",
     "ycy;", "yen", "yen;", "yfr;", "yicy;", "yopf;", "yscr;", "yucy;",
     "yuml", "yuml;", "zacute;", "zcaron;", "zcy;", "zdot;", "zeetrf;",
     "zeta;", "zfr;", "zhcy;", "zigrarr;", "zopf;", "zscr;", "zwj;", "zwnj;"}

\* html.entities.html5, for the names whose text is in the alphabet of the
\* model: << name, text >>
Html5Ascii ==
    {<<"AMP", "&">>, <<"AMP;", "&">>, <<"GT", ">">>, <<"GT;", ">">>,
     <<"Hat;", "^">>, <<"LT", "<">>, <<"LT;", "<">>, <<"NewLine;", "\n">>,
     <<"QUOT", "\"">>, <<"QUOT;", "\"">>, <<"Tab;", "\t">>,
     <<"UnderBar;", "_">>, <<"VerticalLine;", "|">>, <<"amp", "&">>,
     <<"amp;", "&">>, <<"apos;", "'">>, <<"ast;", "*">>, <<"bsol;", "\\">>,
     <<"colon;", ":">>, <<"comma;", ",">>, <<"commat;", "@">>,
     <<"dollar;", "$">>, <<"equals;", "=">>, <<"excl;", "!">>,
     <<"fjlig;", "fj">>, <<"gt", ">">>, <<"gt;", ">">>, <<"lbrace;", "{">>,
     <<"lbrack;", "[">>, <<"lcub;", "{">>, <<"lowbar;", "_">>,
     <<"lpar;", "(">>, <<"lsqb;", "[">>, <<"lt", "<">>, <<"lt;", "<">>,
     <<"midast;", "*">>, <<"num;", "#">>, <<"percnt;", "%">>,
     <<"period;", ".">>, <<"plus;", "+">>, <<"quest;", "?">>,
     <<"quot", "\"">>, <<"quot;", "\"">>, <<"rbrace;", "}">>,
     <<"rbrack;", "]">>, <<"rcub;", "}">>, <<"rpar;", ")">>, <<"rsqb;", "]">>,
     <<"semi;", ";">>, <<"sol;", "/">>, <<"verbar;", "|">>, <<"vert;", "|">>}

\* html.entities.html5[name]
Html5Char(name) ==
    IF \E p \in Html5Ascii : p[1] = name
    THEN (CHOOSE p \in Html5Ascii : p[1] = name)[2]
    ELSE Undefined(name)

\* the greatest code point, 0x10FFFF
CharrefMax == 1114111

\* html._replace_charref for the numeric reference of the number num: the
\* character html._invalid_charrefs has for it (for 0, 13 and 128 to 159),
\* U+FFFD for a surrogate and beyond the greatest code point, nothing for
\* a number of html._invalid_codepoints, else chr(num)
NumericCharref(num) ==
    IF num = 13 THEN "\r"
    ELSE IF num = 0 \/ (num >= 128 /\ num <= 159) THEN Undefined(num)
    ELSE IF (num >= 55296 /\ num <= 57343) \/ num > CharrefMax THEN Undefined(65533)
    ELSE IF \/ num >= 1 /\ num <= 8
            \/ num = 11
            \/ num >= 14 /\ num <= 31
            \/ num = 127
            \/ num >= 64976 /\ num <= 65007
            \/ num % 65536 \in {65534, 65535}
    THEN ""
    ELSE Chr(num)

\* the end of the match of html._charref at the "&" at i (i when it does
\* not match there):
\*   &(#[0-9]+;?|#[xX][0-9a-fA-F]+;?|[^\t\n\f <&#;]{1,32};?)
RefEnd(s, i) ==
    LET semi(e) == IF e < Len(s) /\ Ch(s, e + 1) = ";" THEN e + 1 ELSE e
    IN  IF i < Len(s) /\ Ch(s, i + 1) = "#"
        THEN IF i + 1 < Len(s) /\ Ch(s, i + 2) \in DigitSet
             THEN With(FindNotCh(s, i + 2, DigitSet) - 1, LAMBDA e : semi(e))
             ELSE IF /\ i + 2 < Len(s)
                     /\ Ch(s, i + 2) \in {"x", "X"}
                     /\ Ch(s, i + 3) \in HexSet
             THEN With(FindNotCh(s, i + 3, HexSet) - 1, LAMBDA e : semi(e))
             ELSE i
        ELSE With(FindCh(s, i + 1, {"\t", "\n", "\f", " ", "<", "&", "#", ";"}),
                  LAMBDA stop :
                    With(IF stop = 0 THEN (IF Len(s) - i > 32 THEN i + 32 ELSE Len(s))
                         ELSE (IF stop - 1 - i > 32 THEN i + 32 ELSE stop - 1),
                         LAMBDA e : IF e = i THEN i ELSE semi(e)))

\* html._replace_charref, of the text matched after the "&": a numeric
\* reference, else the whole name, else its longest prefix of 2 or more
\* characters that is a name, else the text unchanged
ReplaceCharref(name) ==
    With(IF Ch(name, Len(name)) = ";" THEN Len(name) - 1 ELSE Len(name), LAMBDA e :
        IF Ch(name, 1) = "#"
        THEN IF Ch(name, 2) \in {"x", "X"}
             THEN NumericCharref(IntOf(SubSeq(name, 3, e), 16, CharrefMax))
             ELSE NumericCharref(IntOf(SubSeq(name, 2, e), 10, CharrefMax))
        ELSE IF name \in Html5Names THEN Html5Char(name)
        ELSE With({ x \in 2..(Len(name) - 1) : SubSeq(name, 1, x) \in Html5Names },
                  LAMBDA xs :
                    IF xs = {} THEN "&" \o name
                    ELSE Html5Char(SubSeq(name, 1, Max(xs)))
                         \o SubSeq(name, Max(xs) + 1, Len(name))))

\* html.unescape(s): _charref.sub(_replace_charref, s), a step per "&"
Unescape(s) ==
    With(s, LAMBDA v :
        While(LAMBDA st :
                With(FindCh(v, st.i, {"&"}), LAMBDA a :
                    IF a = 0
                    THEN [i |-> Len(v) + 1, out |-> st.out \o SubSeq(v, st.i, Len(v))]
                    ELSE With(RefEnd(v, a), LAMBDA f :
                           [i |-> f + 1,
                            out |-> st.out \o SubSeq(v, st.i, a - 1)
                                    \o (IF f = a THEN "&"
                                        ELSE ReplaceCharref(SubSeq(v, a + 1, f)))])),
              LAMBDA st : st.i > Len(v),
              [i |-> 1, out |-> ""], Len(v)).out)

\* html.unescape(s) raises ValueError: s has a decimal reference of more
\* than MaxStrDigits digits, which int() refuses.  Every "&#" before a
\* digit starts a match of html._charref, since no match goes over a "&".
UnescapeRaises(s) ==
    With(s, LAMBDA v :
        \E a \in 1..(Len(v) - MaxStrDigits - 2) :
            /\ SubSeq(v, a, a + 1) = "&#"
            /\ FindNotCh(v, a + 2, DigitSet) - (a + 2) > MaxStrDigits)

(***************************************************************************)
(* extract_text_from_html                                                  *)
(***************************************************************************)
\* "<name\b" matched at i
IsOpenTag(s, i, name) ==
    /\ StartsAtI(s, i, "<" \o name)
    /\ (i + Len(name) + 1 > Len(s) \/ Ch(s, i + Len(name) + 1) \notin WordSet)

\* "<name\b[^>]*>" matched at i: the index of its ">", or 0
OpenTagEnd(s, i, name) ==
    IF IsOpenTag(s, i, name) THEN FindCh(s, i + Len(name) + 1, {">"}) ELSE 0

\* the first match of <name\b[^>]*>(.*?)</name> starting at or after i:
\* <<start of group 1, end of group 1, end of the match>>, or <<0, 0, 0>>.
\* The pattern matches at the first "<name\b" or nowhere after it: a ">"
\* or a "</name>" that follows a later one follows the first one too.
SearchBlock(s, i, name) ==
    With({ a \in i..Len(s) : IsOpenTag(s, a, name) }, LAMBDA as :
        IF as = {} THEN <<0, 0, 0>>
        ELSE With(OpenTagEnd(s, Min(as), name), LAMBDA j :
                 With(IF j = 0 THEN 0 ELSE FindStr(s, j + 1, "</" \o name \o ">"),
                      LAMBDA k :
                     IF k = 0 THEN <<0, 0, 0>>
                     ELSE << j + 1, k - 1, k + Len(name) + 2 >>)))

\* "\n".join(re.findall(r"<p\b[^>]*>(.*?)</p>", ...)): a step per match
JoinParagraphs(s) ==
    With(s, LAMBDA v :
        While(LAMBDA st :
                With(SearchBlock(v, st.i, "p"), LAMBDA m :
                    IF m[3] = 0 THEN [i |-> Len(v) + 1, n |-> st.n, out |-> st.out]
                    ELSE [i |-> m[3] + 1,
                          n |-> st.n + 1,
                          out |-> st.out \o (IF st.n = 0 THEN "" ELSE "\n")
                                  \o SubSeq(v, m[1], m[2])]),
              LAMBDA st : st.i > Len(v),
              [i |-> 1, n |-> 0, out |-> ""], Len(v)).out)

\* lines 58-67: the content of the first <article>, else of the first
\* <main>, else of the paragraphs
Content(html_text) ==
    With(html_text, LAMBDA h :
        With(SearchBlock(h, 1, "article"), LAMBDA m :
            IF m[3] # 0 THEN SubSeq(h, m[1], m[2])
            ELSE With(SearchBlock(h, 1, "main"), LAMBDA m2 :
                     IF m2[3] # 0 THEN SubSeq(h, m2[1], m2[2])
                     ELSE JoinParagraphs(h))))

\* re.sub(r"<tag.*?>.*?</tag>", " ", s, flags=re.S | re.I): a step per
\* match.  As for SearchBlock, the pattern matches at the first "<tag" (at
\* a, its ">" at j, its "</tag>" at k) or nowhere after it.
RemoveBlocks(s, tag) ==
    With(s, LAMBDA v :
        While(LAMBDA st :
                With({ a \in st.i..Len(v) : StartsAtI(v, a, "<" \o tag) }, LAMBDA as :
                  With(IF as = {} THEN 0 ELSE Min(as), LAMBDA a :
                    With(IF a = 0 THEN 0 ELSE FindCh(v, a + Len(tag) + 1, {">"}),
                         LAMBDA j :
                      With(IF j = 0 THEN 0 ELSE FindStr(v, j + 1, "</" \o tag \o ">"),
                           LAMBDA k :
                        IF k = 0
                        THEN [i |-> Len(v) + 1,
                              out |-> st.out \o SubSeq(v, st.i, Len(v))]
                        ELSE [i |-> k + Len(tag) + 3,
                              out |-> st.out \o SubSeq(v, st.i, a - 1) \o " "])))),
              LAMBDA st : st.i > Len(v),
              [i |-> 1, out |-> ""], Len(v)).out)

\* re.sub(r"<[^>]+>", " ", s): a step per match.  The pattern matches at
\* the first "<" that a ">" does not follow at once, or nowhere after it.
StripTags(s) ==
    With(s, LAMBDA v :
        While(LAMBDA st :
                With({ a \in st.i..(Len(v) - 1) : Ch(v, a) = "<" /\ Ch(v, a + 1) # ">" },
                     LAMBDA as :
                  With(IF as = {} THEN 0 ELSE Min(as), LAMBDA a :
                    With(IF a = 0 THEN 0 ELSE FindCh(v, a + 1, {">"}), LAMBDA k :
                      IF k = 0
                      THEN [i |-> Len(v) + 1, out |-> st.out \o SubSeq(v, st.i, Len(v))]
                      ELSE [i |-> k + 1,
                            out |-> st.out \o SubSeq(v, st.i, a - 1) \o " "]))),
              LAMBDA st : st.i > Len(v),
              [i |-> 1, out |-> ""], Len(v)).out)

\* re.sub(r"\s+", " ", s)
CollapseSpaces(s) ==
    With(s, LAMBDA v :
        ConcatMap(LAMBDA i : IF Ch(v, i) \notin SpaceSet THEN Ch(v, i)
                             ELSE IF i > 1 /\ Ch(v, i - 1) \in SpaceSet THEN ""
                             ELSE " ",
                  1, Len(v)))

extract_text_from_html(html_text) ==
    IF html_text = "" THEN ""
    ELSE Strip(CollapseSpaces(StripTags(
             RemoveBlocks(RemoveBlocks(Content(Unescape(html_text)), "script"),
                          "style"))))

(***************************************************************************)
(* The lexical analyzer                                                    *)
(***************************************************************************)
\* [a-z0-9'] : the class [A-Za-z0-9'] on lowercased text
TokenSet == LowerSet \cup DigitSet \cup {"'"}

\* re.findall(r"[A-Za-z0-9']{2,}", text.lower()): a step per run of the
\* characters of the class, a run of one character giving no token
tokenize_words(text) ==
    With(Lower(text), LAMBDA s :
        While(LAMBDA st :
                With(FindCh(s, st.i, TokenSet), LAMBDA a :
                    IF a = 0 THEN [i |-> Len(s) + 1, out |-> st.out]
                    ELSE With(FindNotCh(s, a, TokenSet) - 1, LAMBDA e :
                           [i |-> e + 1,
                            out |-> IF e - a + 1 >= 2
                                    THEN Append(st.out, SubSeq(s, a, e))
                                    ELSE st.out])),
              LAMBDA st : st.i > Len(s),
              [i |-> 1, out |-> << >>], Len(s)).out)

\* re.split(r"[.!?]\s+", text.strip()), the fragments that are not blank
\* counted, floored at 1.  A separator is a . ! ? followed by white space;
\* the fragment before it is blank unless a non-space character lies
\* between it and the separator before.
sentence_count(text) ==
    With(Strip(text), LAMBDA t :
        With({ i \in 1..(Len(t) - 1) :
                 Ch(t, i) \in {".", "!", "?"} /\ Ch(t, i + 1) \in SpaceSet },
             LAMBDA seps :
               LET prev(i) == IF \E p \in seps : p < i
                              THEN Max({ p \in seps : p < i }) ELSE 0
                   solid(lo, hi) == \E j \in lo..hi : Ch(t, j) \notin SpaceSet
                   before == { i \in seps : solid(prev(i) + 1, i - 1) }
                   last == IF solid(prev(Len(t) + 1) + 1, Len(t)) THEN 1 ELSE 0
               IN  IF Cardinality(before) + last < 1 THEN 1
                   ELSE Cardinality(before) + last))

\* lines 91-97: the for loop of estimate_syllables, its sylls at the end
SyllableLoop(word) ==
    While(LAMBDA st :
            With(Ch(word, st.i) \in CharsOf("aeiouy"), LAMBDA is_v :
                [i |-> st.i + 1,
                 sylls |-> IF is_v /\ ~st.prev_vowel THEN st.sylls + 1 ELSE st.sylls,
                 prev_vowel |-> is_v]),
          LAMBDA st : st.i > Len(word),
          [i |-> 1, sylls |-> 0, prev_vowel |-> FALSE], Len(word)).sylls

\* the count without the rule of the final "e"
estimate_syllables_NoSilentE(w) ==
    With(Lower(w), LAMBDA lw :
      With(ConcatMap(LAMBDA i : IF Ch(lw, i) \in LowerSet THEN Ch(lw, i) ELSE "",
                     1, Len(lw)),
           LAMBDA word :
             IF word = "" THEN 0
             ELSE With(SyllableLoop(word),
                       LAMBDA sylls : IF sylls = 0 THEN 1 ELSE sylls)))

estimate_syllables(w) ==
    With(Lower(w), LAMBDA lw :
      With(ConcatMap(LAMBDA i : IF Ch(lw, i) \in LowerSet THEN Ch(lw, i) ELSE "",
                     1, Len(lw)),
           LAMBDA word :
             IF word = "" THEN 0
             ELSE With(SyllableLoop(word), LAMBDA counted :
                      With(IF Ch(word, Len(word)) = "e" /\ counted > 1
                           THEN counted - 1 ELSE counted,
                           LAMBDA sylls : IF sylls = 0 THEN 1 ELSE sylls))))

(***************************************************************************)
(* Numbers.  The floats of the code are IEEE doubles; the model computes   *)
(* them exactly.  A natural number of any size is the sequence of its      *)
(* digits in base LimbBase, the least first, << >> being 0.                *)
(***************************************************************************)
LimbBase == 32768

LimbBits == 15

\* the bits of the significand of a double
DoubleBits == 53

RECURSIVE BigOfInt(_)
BigOfInt(n) ==
    IF n = 0 THEN << >> ELSE << n % LimbBase >> \o BigOfInt(n \div LimbBase)

RECURSIVE BigToInt(_)
BigToInt(a) ==
    IF a = << >> THEN 0 ELSE a[1] + LimbBase * BigToInt(SubSeq(a, 2, Len(a)))

Limb(a, i) == IF i <= Len(a) THEN a[i] ELSE 0

\* a without its leading zeros
BigNorm(a) ==
    With(a, LAMBDA v :
        With({ i \in 1..Len(v) : v[i] # 0 }, LAMBDA nz :
            IF nz = {} THEN << >> ELSE SubSeq(v, 1, Max(nz))))

BigBits(a) ==
    With(a, LAMBDA v :
        IF v = << >> THEN 0 ELSE LimbBits * (Len(v) - 1) + BitLen(v[Len(v)]))

\* -1, 0, 1 as a < b, a = b, a > b
BigCmp(a, b) ==
    With(a, LAMBDA x : With(b, LAMBDA y :
        With({ i \in 1..Max({Len(x), Len(y)}) : Limb(x, i) # Limb(y, i) }, LAMBDA ds :
            IF ds = {} THEN 0
            ELSE IF Limb(x, Max(ds)) > Limb(y, Max(ds)) THEN 1 ELSE 0 - 1)))

\* the digits from the i-th on of a + b + carry * LimbBase^(i-1)
RECURSIVE BigAddFrom(_, _, _, _)
BigAddFrom(a, b, i, carry) ==
    IF i > Len(a) /\ i > Len(b)
    THEN (IF carry = 0 THEN << >> ELSE << carry >>)
    ELSE With(Limb(a, i) + Limb(b, i) + carry, LAMBDA t :
             << t % LimbBase >> \o BigAddFrom(a, b, i + 1, t \div LimbBase))

BigAdd(a, b) ==
    With(a, LAMBDA x : With(b, LAMBDA y : BigAddFrom(x, y, 1, 0)))

\* the digits from the i-th on of a - b, borrow being owed (a >= b)
RECURSIVE BigSubFrom(_, _, _, _)
BigSubFrom(a, b, i, borrow) ==
    IF i > Len(a) THEN << >>
    ELSE With(Limb(a, i) - Limb(b, i) - borrow, LAMBDA t :
             << t % LimbBase >> \o BigSubFrom(a, b, i + 1, IF t < 0 THEN 1 ELSE 0))

BigSub(a, b) ==
    With(a, LAMBDA x : With(b, LAMBDA y : BigNorm(BigSubFrom(x, y, 1, 0))))

\* the digits from the i-th on of a * k + carry * LimbBase^(i-1), k < LimbBase
RECURSIVE BigMulSmallFrom(_, _, _, _)
BigMulSmallFrom(a, k, i, carry) ==
    IF i > Len(a) THEN (IF carry = 0 THEN << >> ELSE << carry >>)
    ELSE With(a[i] * k + carry, LAMBDA t :
             << t % LimbBase >> \o BigMulSmallFrom(a, k, i + 1, t \div LimbBase))

BigMulSmall(a, k) ==
    IF k = 0 THEN << >> ELSE With(a, LAMBDA x : BigMulSmallFrom(x, k, 1, 0))

\* a * LimbBase^n
BigShiftLimbs(a, n) ==
    With(a, LAMBDA v : IF v = << >> THEN << >> ELSE [ i \in 1..n |-> 0 ] \o v)

\* a * (b[j] + b[j+1] * LimbBase + ...)
RECURSIVE BigMulFrom(_, _, _)
BigMulFrom(a, b, j) ==
    IF j > Len(b) THEN << >>
    ELSE With(BigMulFrom(a, b, j + 1), LAMBDA rest :
             BigAdd(BigMulSmall(a, b[j]), BigShiftLimbs(rest, 1)))

BigMul(a, b) ==
    With(a, LAMBDA x : With(b, LAMBDA y : BigMulFrom(x, y, 1)))

\* a * 2^k
BigShl(a, k) == BigShiftLimbs(BigMulSmall(a, 2 ^ (k % LimbBits)), k \div LimbBits)

\* the quotient of a by d (0 < d <= 2 * LimbBase), its digits from the
\* i-th down, rem being the remainder of the digits above
RECURSIVE BigDivSmallFrom(_, _, _, _)
BigDivSmallFrom(a, d, i, rem) ==
    IF i < 1 THEN [q |-> << >>, r |-> rem]
    ELSE With(rem * LimbBase + a[i], LAMBDA t :
           With(BigDivSmallFrom(a, d, i - 1, t % d), LAMBDA low :
             [q |-> Append(low.q, t \div d), r |-> low.r]))

\* a divided by d: the quotient q and the remainder r
BigDivSmall(a, d) ==
    With(a, LAMBDA x :
        With(BigDivSmallFrom(x, d, Len(x), 0), LAMBDA res :
            [q |-> BigNorm(res.q), r |-> res.r]))

\* a divided by 2^k: the quotient q, and half = -1, 0, 1 as the remainder
\* is less than, equal to, more than the half of 2^k (k >= 1)
BigShr(a, k) ==
    With(a, LAMBDA x :
        With(BigDivSmall(SubSeq(x, k \div LimbBits + 1, Len(x)), 2 ^ (k % LimbBits)).q,
             LAMBDA quot :
               [q |-> quot,
                half |-> BigCmp(BigSub(x, BigShl(quot, k)), BigShl(<< 1 >>, k - 1))]))

\* A double is its sign, its significand m (DoubleBits bits, or << >> for
\* zero) and its exponent e: the number m * 2^e.
FloatZero(neg) == [neg |-> neg, m |-> << >>, e |-> 0]

\* the double nearest to n * 2^e (n > 0; sticky: and a little more, n then
\* having more than DoubleBits + 1 bits), a tie going to the even one
RoundDouble(neg, n, e, sticky) ==
  With(n, LAMBDA nv :
    With(BigBits(nv), LAMBDA bits :
        IF bits <= DoubleBits
        THEN [neg |-> neg, m |-> BigShl(nv, DoubleBits - bits), e |-> e - (DoubleBits - bits)]
        ELSE With(BigShr(nv, bits - DoubleBits), LAMBDA sh :
               With(IF \/ sh.half > 0
                       \/ sh.half = 0 /\ (sticky \/ Limb(sh.q, 1) % 2 = 1)
                    THEN BigAdd(sh.q, << 1 >>) ELSE sh.q,
                    LAMBDA m1 :
                      IF BigBits(m1) > DoubleBits
                      THEN [neg |-> neg, m |-> BigShr(m1, 1).q, e |-> e + bits - DoubleBits + 1]
                      ELSE [neg |-> neg, m |-> m1, e |-> e + bits - DoubleBits]))))

\* the number of digits of base LimbBase a dividend is shifted by
DivShift == 6

\* p / d for ints p >= 0 and d > 0 (d <= 2 * LimbBase), negated when neg:
\* the double nearest to the quotient.  It is also the double of a
\* decimal literal: 206.835 is FloatDiv(FALSE, 206835, 1000).
FloatDiv(neg, p, d) ==
    IF p = 0 THEN FloatZero(neg)
    ELSE With(BigDivSmall(BigShiftLimbs(BigOfInt(p), DivShift), d), LAMBDA res :
             RoundDouble(neg, res.q, 0 - DivShift * LimbBits, res.r # 0))

\* x * y
FloatMul(a, b) ==
    With(a, LAMBDA x : With(b, LAMBDA y :
        IF x.m = << >> \/ y.m = << >> THEN FloatZero(x.neg # y.neg)
        ELSE RoundDouble(x.neg # y.neg, BigMul(x.m, y.m), x.e + y.e, FALSE)))

\* x + y
FloatAdd(a, b) ==
  With(a, LAMBDA x : With(b, LAMBDA y :
    IF x.m = << >> /\ y.m = << >> THEN FloatZero(x.neg /\ y.neg)
    ELSE IF x.m = << >> THEN y
    ELSE IF y.m = << >> THEN x
    ELSE With(Min({x.e, y.e}), LAMBDA e :
           With(BigShl(x.m, x.e - e), LAMBDA nx :
             With(BigShl(y.m, y.e - e), LAMBDA ny :
               IF x.neg = y.neg THEN RoundDouble(x.neg, BigAdd(nx, ny), e, FALSE)
               ELSE With(BigCmp(nx, ny), LAMBDA c :
                      IF c = 0 THEN FloatZero(FALSE)
                      ELSE IF c > 0 THEN RoundDouble(x.neg, BigSub(nx, ny), e, FALSE)
                      ELSE RoundDouble(y.neg, BigSub(ny, nx), e, FALSE)))))))

\* x - y
FloatSub(a, b) == FloatAdd(a, With(b, LAMBDA y : [neg |-> ~y.neg, m |-> y.m, e |-> y.e]))

\* round(x, ndigits), ndigits <= 3: the decimal number of ndigits decimals
\* nearest to the double x, a tie going to the even one.  It is given as
\* its sign and its count n of thousandths; -0.0 has neg TRUE and n 0.
Round(a, ndigits) ==
  With(a, LAMBDA x :
    IF x.m = << >> THEN [neg |-> x.neg, n |-> 0]
    ELSE With(BigMul(x.m, BigOfInt(10 ^ ndigits)), LAMBDA scaled :
           With(IF x.e >= 0 THEN [q |-> BigShl(scaled, x.e), half |-> 0 - 1]
                ELSE BigShr(scaled, 0 - x.e), LAMBDA sh :
               [neg |-> x.neg,
                n |-> 10 ^ (3 - ndigits)
                      * (BigToInt(sh.q)
                         + (IF \/ sh.half > 0
                               \/ sh.half = 0 /\ Limb(sh.q, 1) % 2 = 1
                            THEN 1 ELSE 0))])))

\* round(206.835 - 1.015 * (W / S) - 84.6 * (syllables / W), 2)
FleschScore(W, S, syllables) ==
    Round(FloatSub(FloatSub(FloatDiv(FALSE, 206835, 1000),
                            FloatMul(FloatDiv(FALSE, 1015, 1000), FloatDiv(FALSE, W, S))),
                   FloatMul(FloatDiv(FALSE, 846, 10), FloatDiv(FALSE, syllables, W))),
          2)

flesch_reading_ease(text) ==
    With(tokenize_words(text), LAMBDA words :
      With(IF Len(words) < 1 THEN 1 ELSE Len(words), LAMBDA W :
        With(sentence_count(text), LAMBDA S :
          With(SumMap(LAMBDA i : estimate_syllables(words[i]), 1, Len(words)),
               LAMBDA syllables :
            FleschScore(W, S, syllables)))))

POS_WORDS ==
    {"good", "great", "positive", "gain", "gains", "rise", "up", "beat", "beats",
     "profit", "growth", "improve", "surge", "strong", "optimistic", "bull"}

NEG_WORDS ==
    {"bad", "worse", "negative", "loss", "losses", "fall", "down", "miss", "missed",
     "drop", "weak", "decline", "declining", "bear", "pessimistic", "crash"}

\* the difference of the counts, not divided by their sum
simple_sentiment_Unnormalised(text) ==
    With(tokenize_words(text), LAMBDA words :
      With(Cardinality({ i \in 1..Len(words) : words[i] \in POS_WORDS }), LAMBDA pos :
        With(Cardinality({ i \in 1..Len(words) : words[i] \in NEG_WORDS }), LAMBDA neg :
          IF pos >= neg THEN [neg |-> FALSE, n |-> 1000 * (pos - neg)]
          ELSE [neg |-> TRUE, n |-> 1000 * (neg - pos)])))

\* round((pos - neg) / (pos + neg), 3), or 0.0
simple_sentiment(text) ==
    With(tokenize_words(text), LAMBDA words :
      With(Cardinality({ i \in 1..Len(words) : words[i] \in POS_WORDS }), LAMBDA pos :
        With(Cardinality({ i \in 1..Len(words) : words[i] \in NEG_WORDS }), LAMBDA neg :
          IF pos + neg = 0 THEN [neg |-> FALSE, n |-> 0]
          ELSE IF pos >= neg THEN Round(FloatDiv(FALSE, pos - neg, pos + neg), 3)
          ELSE Round(FloatDiv(TRUE, neg - pos, pos + neg), 3))))

\* line 175: round(wc / 200.0, 2)
reading_time(wc) == Round(FloatDiv(FALSE, wc, 200), 2)

(***************************************************************************)
(* Keywords and entities                                                   *)
(***************************************************************************)
STOPWORDS ==
    {"the", "and", "a", "an", "in", "on", "for", "to", "of", "is", "are", "was",
     "were", "by", "with", "as", "that", "this", "it", "from", "at", "be", "has",
     "have", "had", "but", "or", "not", "we", "they", "he", "she", "I", "you",
     "your", "our", "us", "their", "which", "will", "its", "can", "about", "more",
     "after", "also", "one", "all", "new"}

\* Counter(items).most_common(n): by count, ties in first-seen order
MostCommon(list, n) ==
    With(list, LAMBDA items :
      With({ i \in 1..Len(items) : \A j \in 1..(i - 1) : items[j] # items[i] },
           LAMBDA firsts :
        With([ i \in firsts |-> Cardinality({ j \in 1..Len(items) : items[j] = items[i] }) ],
             LAMBDA count :
               LET rank(i) == Cardinality({ j \in firsts :
                                              \/ count[j] > count[i]
                                              \/ count[j] = count[i] /\ j < i })
                   k == IF Cardinality(firsts) < n THEN Cardinality(firsts) ELSE n
               IN  [ r \in 1..k |-> items[CHOOSE i \in firsts : rank(i) = r - 1] ])))

\* ", ".join(items)
JoinComma(list) ==
    With(list, LAMBDA items :
        ConcatMap(LAMBDA i : (IF i = 1 THEN "" ELSE ", ") \o items[i], 1, Len(items)))

\* str.isdigit()
IsDigits(w) == w # "" /\ \A i \in 1..Len(w) : Ch(w, i) \in DigitSet

KeywordCount == 8

top_keywords(text) ==
    JoinComma(MostCommon(
        SelectSeq(tokenize_words(text),
                  LAMBDA w : w \notin STOPWORDS /\ Len(w) > 2 /\ ~IsDigits(w)),
        KeywordCount))

\* [A-Z][a-z0-9]{1,} matched at i, as long as it can be: its end, or 0
CapWordEnd(s, i) ==
    IF /\ i >= 1 /\ i < Len(s) /\ Ch(s, i) \in UpperSet
       /\ Ch(s, i + 1) \in LowerSet \cup DigitSet
    THEN FindNotCh(s, i + 1, LowerSet \cup DigitSet) - 1
    ELSE 0

\* the capitalized words that follow each other from the one at a, each
\* after white space, as << start, end >> pairs: a step per word
CapChain(s, a) ==
    While(LAMBDA st :
            With(CapWordEnd(s, st.a), LAMBDA e :
                IF e = 0 THEN [a |-> 0, out |-> st.out]
                ELSE With(FindNotCh(s, e + 1, SpaceSet), LAMBDA b :
                       [a |-> IF b > e + 1 /\ b <= Len(s) THEN b ELSE 0,
                        out |-> Append(st.out, << st.a, e >>)])),
          LAMBDA st : st.a = 0,
          [a |-> a, out |-> << >>], Len(s)).out

\* the pattern of extract_entities_simple matched at a: the words of the
\* match.  The last word must end at a word boundary; a chain of three or
\* more words whose last one does not gives up that word.
EntityWords(s, a) ==
    IF a > 1 /\ Ch(s, a - 1) \in WordSet THEN << >>
    ELSE With(CapChain(s, a), LAMBDA chain :
             LET m == Len(chain)
                 atBoundary(e) == e = Len(s) \/ Ch(s, e + 1) \notin WordSet
             IN  IF m < 2 THEN << >>
                 ELSE IF atBoundary(chain[m][2]) THEN chain
                 ELSE IF m >= 3 THEN SubSeq(chain, 1, m - 1)
                 ELSE << >>)

EntityMinLen == 2

\* lines 130-135: re.findall of the pattern, a step per place where a
\* capitalized word starts at a word boundary, and the filter of the loop
EntitiesFrom(s, i) ==
    While(LAMBDA st :
            With({ a \in st.i..Len(s) :
                     CapWordEnd(s, a) # 0 /\ (a = 1 \/ Ch(s, a - 1) \notin WordSet) },
                 LAMBDA as :
              IF as = {} THEN [i |-> Len(s) + 1, out |-> st.out]
              ELSE With(EntityWords(s, Min(as)), LAMBDA words :
                     With(Len(words), LAMBDA n :
                       IF n = 0 THEN [i |-> Min(as) + 1, out |-> st.out]
                       ELSE [i |-> words[n][2] + 1,
                             out |-> IF /\ n >= EntityMinLen
                                        /\ \E k \in 1..n : words[k][2] - words[k][1] + 1 > 2
                                     THEN Append(st.out, SubSeq(s, words[1][1], words[n][2]))
                                     ELSE st.out]))),
          LAMBDA st : st.i > Len(s),
          [i |-> i, out |-> << >>], Len(s)).out

EntityCount == 6

extract_entities_simple(text) ==
    With(text, LAMBDA s : JoinComma(MostCommon(EntitiesFrom(s, 1), EntityCount)))

(***************************************************************************)
(* Cells, rows and CSV files.  A cell is a Python value of a row dict: a   *)
(* str, an int, a float or None.  A float is its sign s ("-" or "") and    *)
(* its count n of thousandths.  A row is a function from column names to   *)
(* cells.  A file on disk holds text only.                                 *)
(***************************************************************************)
Str(s) == [ty |-> "str", s |-> s, n |-> 0]

IntCell(n) == [ty |-> "int", s |-> "", n |-> n]

\* the float x: x.neg its sign, x.n its count of thousandths
FloatCell(x) == [ty |-> "float", s |-> IF x.neg THEN "-" ELSE "", n |-> x.n]

NoneCell == [ty |-> "none", s |-> "", n |-> 0]

\* a test for None in the place of the truth value
Truthy_NotNone(c) == c.ty # "none"

\* the truth value of a cell
Truthy(c) == IF c.ty = "str" THEN c.s # "" ELSE c.n # 0

\* str(x) of a float x of n thousandths and sign s
FormatFloat(s, n) ==
    LET d1 == (n % 1000) \div 100
        d2 == (n % 100) \div 10
        d3 == n % 10
    IN  s \o ToString(n \div 1000) \o "."
        \o ToString(d1)
        \o (IF d2 # 0 \/ d3 # 0 THEN ToString(d2) ELSE "")
        \o (IF d3 # 0 THEN ToString(d3) ELSE "")

\* what csv.writer writes for a cell
CsvText(c) ==
    CASE c.ty = "str" -> c.s
      [] c.ty = "int" -> ToString(c.n)
      [] c.ty = "float" -> FormatFloat(c.s, c.n)
      [] OTHER -> ""

\* row.get(col)
Get(row, col) == IF col \in DOMAIN row THEN row[col] ELSE NoneCell

Range(f) == { f[i] : i \in DOMAIN f }

NoFile == [exists |-> FALSE, fieldnames |-> << >>, rows |-> << >>]

\* The key None of a row: csv.DictReader puts the cells a line has beyond
\* the header under it (restkey).  No column has this name.
RestKey == "None"

\* what DictWriter.writerow writes for a row: a text per field name, ""
\* for a name the row lacks
CsvRow(names, row) == [ c \in Range(names) |-> Str(CsvText(Get(row, c))) ]

\* DictWriter._dict_to_list raises ValueError for the row: it has a key
\* that is not a field name
ExtraFields(names, row) == DOMAIN row \ Range(names) # {}

\* csv.DictWriter(outf, fieldnames).writeheader(); writerows(rows): the
\* file when the with block is left.  The rows are written one by one; at
\* a row with a key that is not a field name the writer raises ValueError,
\* and the file is left with the rows before it.
WriteCsv(names, table) ==
    With({ i \in 1..Len(table) : ExtraFields(names, table[i]) }, LAMBDA bad :
        [exists |-> TRUE,
         fieldnames |-> names,
         rows |-> [ i \in 1..(IF bad = {} THEN Len(table) ELSE Min(bad) - 1) |->
                      CsvRow(names, table[i]) ]])

\* writerows(rows) raises ValueError
WriteRaises(names, table) == \E i \in 1..Len(table) : ExtraFields(names, table[i])

INPUT_CSV == "finshots_articles.csv"

\* the output written over the input
OUTPUT_CSV_SameAsInput == "finshots_articles.csv"

OUTPUT_CSV == "finshots_enriched_simple.csv"

CHECKPOINT_CSV == "finshots_checkpoint_simple.csv"

FileNames == {INPUT_CSV, OUTPUT_CSV, CHECKPOINT_CSV}

new_cols ==
    << "content_simple", "word_count", "reading_time_min", "flesch_simple",
       "sentiment_simple", "top_keywords", "entities_simple" >>

\* for c in new_cols: if c not in fieldnames: fieldnames.append(c)
RECURSIVE AppendNewCols(_, _)
AppendNewCols(names, k) ==
    IF k > Len(new_cols) THEN names
    ELSE AppendNewCols(IF new_cols[k] \in Range(names) THEN names
                       ELSE Append(names, new_cols[k]), k + 1)

\* the content column blanked, the other six left as they are
BlankRow_ContentOnly(row) ==
    [ c \in DOMAIN row \cup {"content_simple"} |->
        IF c = "content_simple" THEN Str("") ELSE row[c] ]

\* for c in new_cols: row[c] = ""
BlankRow(row) ==
    [ c \in DOMAIN row \cup Range(new_cols) |->
        IF c \in Range(new_cols) THEN Str("") ELSE row[c] ]

\* lines 171-187: the seven derived cells computed from a fetched body
DeriveCols(html_text) ==
  With(extract_text_from_html(html_text), LAMBDA content :
    With(Len(tokenize_words(content)), LAMBDA wc :
        [content_simple |-> Str(content),
         word_count |-> IntCell(wc),
         reading_time_min |-> FloatCell(reading_time(wc)),
         flesch_simple |-> IF wc > 0 THEN FloatCell(flesch_reading_ease(content))
                           ELSE Str(""),
         sentiment_simple |-> IF wc > 0 THEN FloatCell(simple_sentiment(content))
                              ELSE FloatCell([neg |-> FALSE, n |-> 0]),
         top_keywords |-> Str(top_keywords(content)),
         entities_simple |-> Str(extract_entities_simple(html_text))]))

(***************************************************************************)
(* urllib.request.Request(url), which fetch_html builds on line 37 before  *)
(* its try block: the urls for which the constructor raises ValueError     *)
(***************************************************************************)
\* s.startswith(p)
StartsWith(s, p) == Len(s) >= Len(p) /\ SubSeq(s, 1, Len(p)) = p

\* urllib.parse.unwrap
Unwrap(url) ==
    With(Strip(url), LAMBDA u :
        With(IF Len(u) >= 1 /\ Ch(u, 1) = "<" /\ Ch(u, Len(u)) = ">"
             THEN Strip(SubSeq(u, 2, Len(u) - 1)) ELSE u,
             LAMBDA w : IF StartsWith(w, "URL:")
                        THEN Strip(SubSeq(w, 5, Len(w))) ELSE w))

\* urllib.parse._splittag: << the url before its last "#", the tag after >>
SplitTag(url) ==
    With(url, LAMBDA u :
        With(Max({0} \cup { j \in 1..Len(u) : Ch(u, j) = "#" }), LAMBDA h :
            IF h = 0 THEN << u, "" >>
            ELSE << SubSeq(u, 1, h - 1), SubSeq(u, h + 1, Len(u)) >>))

\* urllib.parse._splittype finds a type: ([^/:]+):(.*) matches at the start
HasUrlType(url) ==
    With(FindCh(url, 1, {"/", ":"}), LAMBDA c : c > 1 /\ Ch(url, c) = ":")

\* Request.full_url: the url without the tag, and "#" and the tag when the
\* tag is not empty
FullUrl(url) ==
    With(SplitTag(Unwrap(url)), LAMBDA t :
        IF t[2] = "" THEN t[1] ELSE t[1] \o "#" \o t[2])

\* ipaddress.IPv4Address accepts the text
IsIPv4(text) ==
    With(Split(text, "."), LAMBDA octets :
        /\ text # ""
        /\ FindCh(text, 1, {"/"}) = 0
        /\ Len(octets) = 4
        /\ \A k \in 1..4 :
             /\ octets[k] # ""
             /\ IsDigits(octets[k])
             /\ Len(octets[k]) <= 3
             /\ (octets[k] = "0" \/ Ch(octets[k], 1) # "0")
             /\ IntOf(octets[k], 10, 255) <= 255)

\* IPv6Address._parse_hextet accepts the text
IsHextet(text) ==
    /\ text # ""
    /\ Len(text) <= 4
    /\ \A i \in 1..Len(text) : Ch(text, i) \in HexSet

\* the greatest number of parts of an IPv6 address
HextetCount == 8

\* IPv6Address._ip_int_from_string accepts the text
IsIPv6Address(text) ==
    With(Split(text, ":"), LAMBDA raw :
      IF text = "" \/ Len(raw) < 3 THEN FALSE
      ELSE With(IF \E i \in 1..Len(raw[Len(raw)]) : Ch(raw[Len(raw)], i) = "."
                THEN IF IsIPv4(raw[Len(raw)])
                     THEN SubSeq(raw, 1, Len(raw) - 1) \o << "0", "0" >>
                     ELSE << >>
                ELSE raw,
                LAMBDA parts :
        With(Len(parts), LAMBDA n :
          With({ i \in 2..(n - 1) : parts[i] = "" }, LAMBDA skips :
            IF n = 0 \/ n > HextetCount + 1 \/ Cardinality(skips) > 1 THEN FALSE
            ELSE IF skips # {}
            THEN With(Min(skips), LAMBDA skip_index :
                   With(IF parts[1] = "" THEN skip_index - 2 ELSE skip_index - 1,
                        LAMBDA parts_hi :
                     With(IF parts[n] = "" THEN n - skip_index - 1 ELSE n - skip_index,
                          LAMBDA parts_lo :
                       /\ parts[1] = "" => parts_hi = 0
                       /\ parts[n] = "" => parts_lo = 0
                       /\ HextetCount - (parts_hi + parts_lo) >= 1
                       /\ \A i \in 1..parts_hi : IsHextet(parts[i])
                       /\ \A i \in (n - parts_lo + 1)..n : IsHextet(parts[i]))))
            ELSE /\ n = HextetCount
                 /\ \A i \in 1..n : IsHextet(parts[i])))))

\* ipaddress.IPv6Address accepts the text
IsIPv6(text) ==
    With(Split(text, "%"), LAMBDA p :
        IF FindCh(text, 1, {"/"}) # 0 THEN FALSE
        ELSE IF Len(p) = 1 THEN IsIPv6Address(text)
        ELSE Len(p) = 2 /\ p[2] # "" /\ IsIPv6Address(p[1]))

\* urllib.parse._check_bracketed_host raises ValueError
BadBracketedHost(host) ==
    IF host # "" /\ Ch(host, 1) = "v"
    THEN With(FindNotCh(host, 2, HexSet), LAMBDA d :
             ~(d > 2 /\ d < Len(host) /\ Ch(host, d) = "."))
    ELSE ~IsIPv6(host)

\* urllib.parse.urlsplit(url) raises ValueError
UrlSplitRaises(url) ==
    With(Remove(SubSeq(url, FindNotCh(url, 1, CharsOf(SubSeq(ASCII_1_95, 1, 32))),
                       Len(url)),
                {"\t", "\r", "\n"}),
         LAMBDA u :
      With(FindCh(u, 1, {":"}), LAMBDA i :
        With(IF /\ i > 1
                /\ Ch(u, 1) \in LowerSet \cup UpperSet
                /\ \A j \in 1..(i - 1) :
                     Ch(u, j) \in LowerSet \cup UpperSet \cup DigitSet \cup {"+", "-", "."}
             THEN SubSeq(u, i + 1, Len(u)) ELSE u,
             LAMBDA rest :
          IF ~StartsWith(rest, "//") THEN FALSE
          ELSE With(FindCh(rest, 3, {"/", "?", "#"}), LAMBDA d :
                 With(SubSeq(rest, 3, IF d = 0 THEN Len(rest) ELSE d - 1), LAMBDA netloc :
                   With(FindCh(netloc, 1, {"["}), LAMBDA lb :
                     With(FindCh(netloc, 1, {"]"}), LAMBDA rb :
                       IF lb = 0 /\ rb = 0 THEN FALSE
                       ELSE IF lb = 0 \/ rb = 0 THEN TRUE
                       ELSE With(FindCh(netloc, lb + 1, {"]"}), LAMBDA close :
                              BadBracketedHost(
                                  SubSeq(netloc, lb + 1,
                                         IF close = 0 THEN Len(netloc) ELSE close - 1))))))))))

\* Request(url) raises ValueError: no type is found (Request._parse), or
\* request_host(), which parses the full url, raises
RequestRaises(url) ==
    With(url, LAMBDA u :
        \/ ~HasUrlType(SplitTag(Unwrap(u))[1])
        \/ UrlSplitRaises(FullUrl(u)))

(***************************************************************************)
(* The environment: the pages behind the urls of the input tables.         *)
(***************************************************************************)
UrlA == "http://x/a"

UrlB == "http://x/b"

UrlEmpty == "http://x/empty"

UrlNoScheme == "x/a"

\* UrlA in the wrapper that Request takes off
UrlWrapped == "<URL:http://x/a>"

\* a url with no type under the prefix that Request takes off
UrlBadType == "URL:x/a"

\* a url whose bracketed host is no IPv6 address
UrlBadHost == "http://[x]/a"

\* the url of a page with a decimal reference too long for int()
UrlHuge == "http://x/huge"

\* a url as the crawler collects them from the archive of the site
UrlArchive == "https://finshots.in/archive/a"

PageA == "<article><p>Good growth, strong profit.</p></article>"

PageB == "<main><h1>Big  Bank</h1><p>Profit &amp; loss: a weak drop! Shares fall.</p></main>"

PageEmpty == "<html><body><div>no paragraphs</div></body></html>"

\* s, n times
RECURSIVE Repeat(_, _)
Repeat(s, n) ==
    IF n = 0 THEN ""
    ELSE IF n % 2 = 1 THEN s \o Repeat(s, n - 1)
    ELSE With(Repeat(s, n \div 2), LAMBDA half : half \o half)

\* a page with the reference of "A" in MaxStrDigits + 1 digits
PageHuge == "<p>&#" \o Repeat("0", MaxStrDigits - 1) \o "65;b</p>"

\* what a successful GET of the url returns: the request is for
\* Request(url).full_url
Web(url) ==
    With(FullUrl(url), LAMBDA u :
        CASE u \in {UrlA, UrlArchive} -> PageA
          [] u = UrlB -> PageB
          [] u = UrlHuge -> PageHuge
          [] OTHER -> PageEmpty)

\* DeriveCols of every body a fetch can return and line 171 accepts
PageCols ==
    ("" :> DeriveCols("")) @@ (PageA :> DeriveCols(PageA))
    @@ (PageB :> DeriveCols(PageB)) @@ (PageEmpty :> DeriveCols(PageEmpty))

(***************************************************************************)
(* Bounds of the model and the input tables it is run on                   *)
(***************************************************************************)
\* line 189: the period of the checkpoint
CheckpointEvery == 10

MaxRows == 11

MaxFailures == 2

MaxRerunRows == 2

MaxRuns == 3

MaxWordLen == 4

MaxCrawlRows == 2

\* src/main.py, line 188: the columns of the table the crawler writes
keys == << "url", "date", "theme", "title" >>

\* src/main.py, line 193: {k: (r.get(k) or "") for k in keys}, the row
\* written for the article r
CrawlRow(r) == [ k \in Range(keys) |-> IF Truthy(Get(r, k)) THEN r[k] ELSE Str("") ]

\* a row of a table from the crawler, for an article that has neither date
\* nor theme
RawRow(i, url) ==
    CrawlRow([url |-> Str(url), date |-> NoneCell, theme |-> NoneCell,
              title |-> Str("t" \o ToString(i))])

\* a row as an earlier run persisted it after fetching UrlA, given the
\* cells derived from the page
ProcessedRow(i, cols) ==
    [ c \in Range(keys) \cup Range(new_cols) |->
        IF c \in Range(new_cols) THEN Str(CsvText(cols[c]))
        ELSE RawRow(i, UrlA)[c] ]

\* csv.DictReader on a line with fewer cells than the header has names:
\* the names without a cell get None (restval).  Here the line has one
\* cell, for the first name.
ShortRow(i, names) ==
    [ c \in Range(names) |->
        IF c # names[1] THEN NoneCell
        ELSE RawRow(i, UrlA)[c] ]

\* the cells a line has beyond the header, as DictReader keeps them: a list
ListCell(items) == [ty |-> "list", s |-> items, n |-> Len(items)]

\* csv.DictReader on a line with one cell more than the header has names
LongRow(i) == (RestKey :> ListCell(<< "x" >>)) @@ RawRow(i, UrlA)

SpecialUrls ==
    {"", "  ", UrlNoScheme, UrlEmpty, UrlB, UrlWrapped, UrlBadType, UrlBadHost, UrlHuge}

\* The table of n rows whose first p rows are processed and whose other
\* rows are fresh rows of UrlA, except row s (if any), a row of url u that
\* has not been processed.  With no processed row it is the crawler's
\* table, otherwise a table a run wrote (a checkpoint, an output).
MakeTable(n, p, s, u, cols) ==
    IF p = 0
    THEN [exists |-> TRUE, fieldnames |-> keys,
          rows |-> [ i \in 1..n |-> RawRow(i, IF i = s THEN u ELSE UrlA) ]]
    ELSE [exists |-> TRUE, fieldnames |-> AppendNewCols(keys, 1),
          rows |-> [ i \in 1..n |->
                       IF i = s THEN BlankRow(RawRow(i, u))
                       ELSE IF i <= p THEN ProcessedRow(i, cols)
                       ELSE BlankRow(RawRow(i, UrlA)) ]]

TablesOfSize(n, cols) ==
    { MakeTable(n, p, 0, "", cols) : p \in 0..n }
    \cup { MakeTable(n, p, s, u, cols) : p \in 0..n, s \in 1..n, u \in SpecialUrls }

\* the tables of n fresh rows of UrlA under a header that has url first or
\* last, except row s, a line with one cell only (long FALSE) or with a
\* cell too many (long TRUE)
RaggedTables ==
    { [exists |-> TRUE, fieldnames |-> names,
       rows |-> [ i \in 1..n |->
                    IF i # s THEN RawRow(i, UrlA)
                    ELSE IF long THEN LongRow(i) ELSE ShortRow(i, names) ]] :
        n \in 1..MaxRows, s \in 1..MaxRows,
        names \in {keys, << "title", "date", "theme", "url" >>}, long \in BOOLEAN }

\* the input tables: no file, a file of no line at all (DictReader has no
\* fieldnames), a table that lacks the url column, the ragged tables and
\* the tables of MakeTable
InputTables(cols) ==
    {NoFile,
     [exists |-> TRUE, fieldnames |-> << >>, rows |-> << >>],
     [exists |-> TRUE, fieldnames |-> << "title" >>, rows |-> << [title |-> Str("t1")] >>]}
    \cup RaggedTables
    \cup UNION { TablesOfSize(n, cols) : n \in 0..MaxRows }

\* tables long enough for a checkpoint: CheckpointEvery rows of UrlA, all
\* processed but the last MaxRerunRows of them at most
LongTables(cols) ==
    { MakeTable(CheckpointEvery, p, 0, "", cols) :
        p \in (CheckpointEvery - MaxRerunRows)..CheckpointEvery }

\* the rows a small table is made of: a row of one of seven urls, a line
\* with one cell only, a line with a cell too many
SmallRows(i) ==
    { RawRow(i, u) : u \in {UrlA, UrlB, UrlEmpty, UrlNoScheme, UrlHuge, "", "  "} }
    \cup {ShortRow(i, << "title", "date", "theme", "url" >>), LongRow(i)}

\* every table of up to MaxRerunRows such rows
SmallTables ==
    UNION { { [exists |-> TRUE, fieldnames |-> << "title", "date", "theme", "url" >>,
                rows |-> rs] :
              rs \in { t \in [1..n -> UNION { SmallRows(i) : i \in 1..n }] :
                         \A i \in 1..n : t[i] \in SmallRows(i) } } :
            n \in 0..MaxRerunRows }

(***************************************************************************)
(* The orchestrator: main()                                                *)
(***************************************************************************)
VARIABLES
    files,        \* the file system: file name -> CSV file (or NoFile)
    rows,         \* main's rows
    fieldnames,   \* main's fieldnames
    idx,          \* the loop's idx (0-based)
    pc,           \* where main is: "start", "loop", "checkpoint" (the write
                  \* of line 191 is due), "done", "aborted" (no input file),
                  \* "crashed" (an exception left main), "idle" (not run, or
                  \* not run since the crawler ran)
    run,          \* the number of the run of the program
    how,          \* what this run was started on: "first", "same", "output",
                  \* "old output", "crawled"
    fetched,      \* the rows fetch_html was called for in this run and did
                  \* not raise, in order
    failed,       \* the rows whose fetch failed in this run
    ckpts,        \* per checkpoint write of this run: Len(fetched) at the write
    outWrites,    \* the writes of the final output in this run
    loaded,       \* the table as this run loaded it
    runInput,     \* the stored input table when this run started
    firstLoaded,  \* the table as the first run of this input loaded it
    prevFailed,   \* the rows whose fetch failed in the run before
    prevEnd,      \* how the run before ended: its last pc, "none" for the
                  \* first run (once the crawler has run: how the last run
                  \* ended)
    derived,      \* DeriveCols of the bodies a fetch can return, tabulated
                  \* when the model starts (lines 171-187 are a pure function)
    sylWord,      \* the argument of estimate_syllables
    sylResult,    \* its result
    lexpc         \* "idle", "call" (to be called), "ret" (returned)

vars ==
    << files, rows, fieldnames, idx, pc, run, how, fetched, failed, ckpts,
       outWrites, loaded, runInput, firstLoaded, prevFailed, prevEnd, derived,
       sylWord,
       sylResult, lexpc >>

lexVars == << sylWord, sylResult, lexpc >>

histVars == << run, how, runInput, firstLoaded, prevFailed, prevEnd, derived >>

StartOn(table, cols) ==
    /\ derived = cols
    /\ files = [ f \in FileNames |-> IF f = INPUT_CSV THEN table ELSE NoFile ]
    /\ rows = << >>
    /\ fieldnames = << >>
    /\ idx = 0
    /\ pc = "start"
    /\ run = 1
    /\ how = "first"
    /\ fetched = << >>
    /\ failed = {}
    /\ ckpts = << >>
    /\ outWrites = 0
    /\ loaded = << >>
    /\ runInput = table
    /\ firstLoaded = << >>
    /\ prevFailed = {}
    /\ prevEnd = "none"
    /\ sylWord = ""
    /\ sylResult = 0
    /\ lexpc = "idle"

Init ==
    \E cols \in {PageCols} :
        \E table \in InputTables(cols[PageA]) : StartOn(table, cols)

\* lines 143-155: read the input table, or give up when it is not there
Load ==
    /\ pc = "start"
    /\ IF files[INPUT_CSV].exists
       THEN /\ rows' = files[INPUT_CSV].rows
            /\ fieldnames' = AppendNewCols(files[INPUT_CSV].fieldnames, 1)
            /\ loaded' = files[INPUT_CSV].rows
            /\ firstLoaded' = IF how = "same" THEN firstLoaded ELSE files[INPUT_CSV].rows
            /\ pc' = "loop"
       ELSE /\ pc' = "aborted"
            /\ UNCHANGED << rows, fieldnames, loaded, firstLoaded >>
    /\ idx' = 0
    /\ UNCHANGED << files, run, how, runInput, prevFailed, prevEnd, derived, fetched,
                    failed, ckpts, outWrites, lexVars >>

\* the row the loop is at
Row == rows[idx + 1]

InLoop == pc = "loop" /\ idx < Len(rows)

\* the test made on a column no table has
Processed_WrongColumn(row) == Truthy(Get(row, "content"))

\* the test made on the word count, which a written table holds as text
Processed_ByWordCount(row) == Truthy(Get(row, "word_count"))

\* line 158
Processed(row) == Truthy(Get(row, "content_simple"))

\* line 162 raises AttributeError: the row has the key "url" with the
\* value None (its line was short), and None has no strip
UrlRaises(row) == "url" \in DOMAIN row /\ row["url"].ty = "none"

\* line 162: row.get("url", "").strip()
UrlOf(row) ==
    IF "url" \notin DOMAIN row THEN Strip("")
    ELSE IF row["url"].ty = "none" THEN Undefined("AttributeError")
    ELSE Strip(row["url"].s)

\* lines 158-160: already processed, skipping
SkipProcessed ==
    /\ InLoop
    /\ Processed(Row)
    /\ idx' = idx + 1
    /\ UNCHANGED << files, rows, fieldnames, pc, histVars, fetched, failed, ckpts,
                    outWrites, loaded, lexVars >>

\* line 162 raises AttributeError, and nothing in main catches it
StripRaises ==
    /\ InLoop
    /\ ~Processed(Row)
    /\ UrlRaises(Row)
    /\ pc' = "crashed"
    /\ UNCHANGED << files, rows, fieldnames, idx, histVars, fetched, failed, ckpts,
                    outWrites, loaded, lexVars >>

\* lines 162-167: no url, skipping
SkipNoUrl ==
    /\ InLoop
    /\ ~Processed(Row)
    /\ ~UrlRaises(Row)
    /\ UrlOf(Row) = ""
    /\ rows' = [rows EXCEPT ![idx + 1] = BlankRow(Row)]
    /\ idx' = idx + 1
    /\ UNCHANGED << files, fieldnames, pc, histVars, fetched, failed, ckpts,
                    outWrites, loaded, lexVars >>

\* line 37 under line 170: Request(url) raises ValueError outside the try
\* of fetch_html, and nothing in main catches it
FetchRaises ==
    /\ InLoop
    /\ ~Processed(Row)
    /\ ~UrlRaises(Row)
    /\ UrlOf(Row) # ""
    /\ RequestRaises(UrlOf(Row))
    /\ pc' = "crashed"
    /\ UNCHANGED << files, rows, fieldnames, idx, histVars, fetched, failed, ckpts,
                    outWrites, loaded, lexVars >>

\* lines 170-171: the fetch returns a body on which html.unescape raises
\* ValueError (line 56), and nothing in main catches it
ExtractRaises ==
    /\ InLoop
    /\ ~Processed(Row)
    /\ ~UrlRaises(Row)
    /\ UrlOf(Row) # ""
    /\ ~RequestRaises(UrlOf(Row))
    /\ UnescapeRaises(Web(UrlOf(Row)))
    /\ fetched' = Append(fetched, idx + 1)
    /\ pc' = "crashed"
    /\ UNCHANGED << files, rows, fieldnames, idx, histVars, failed, ckpts, outWrites,
                    loaded, lexVars >>

\* lines 181-187
Merge(row, cols) ==
    [ c \in DOMAIN row \cup DOMAIN cols |-> IF c \in DOMAIN cols THEN cols[c] ELSE row[c] ]

\* lines 169-189 and 195: fetch (the body, or "" when the fetch fails),
\* extract, score, merge; then either the checkpoint is due or the loop
\* goes on
FetchAndMerge ==
    /\ InLoop
    /\ ~Processed(Row)
    /\ ~UrlRaises(Row)
    /\ UrlOf(Row) # ""
    /\ ~RequestRaises(UrlOf(Row))
    /\ \E ok \in BOOLEAN :
         /\ ~ok => Cardinality(failed) < MaxFailures
         /\ ok => ~UnescapeRaises(Web(UrlOf(Row)))
         /\ LET html_text == IF ok THEN Web(UrlOf(Row)) ELSE ""
            IN  rows' = [rows EXCEPT ![idx + 1] = Merge(Row, derived[html_text])]
         /\ failed' = IF ok THEN failed ELSE failed \cup {idx + 1}
    /\ fetched' = Append(fetched, idx + 1)
    /\ IF (idx + 1) % CheckpointEvery = 0
       THEN pc' = "checkpoint" /\ idx' = idx
       ELSE pc' = "loop" /\ idx' = idx + 1
    /\ UNCHANGED << files, fieldnames, histVars, ckpts, outWrites, loaded, lexVars >>

\* lines 190-195: write the whole table to the checkpoint file; when
\* writerows raises ValueError, nothing in main catches it
WriteCheckpoint ==
    /\ pc = "checkpoint"
    /\ files' = [files EXCEPT ![CHECKPOINT_CSV] = WriteCsv(fieldnames, rows)]
    /\ ckpts' = Append(ckpts, Len(fetched))
    /\ IF WriteRaises(fieldnames, rows)
       THEN pc' = "crashed" /\ idx' = idx
       ELSE pc' = "loop" /\ idx' = idx + 1
    /\ UNCHANGED << rows, fieldnames, histVars, fetched, failed, outWrites, loaded,
                    lexVars >>

\* lines 197-202: write the whole table to the output file; when writerows
\* raises ValueError, nothing in main catches it
Finish ==
    /\ pc = "loop"
    /\ idx = Len(rows)
    /\ files' = [files EXCEPT ![OUTPUT_CSV] = WriteCsv(fieldnames, rows)]
    /\ outWrites' = outWrites + 1
    /\ pc' = IF WriteRaises(fieldnames, rows) THEN "crashed" ELSE "done"
    /\ UNCHANGED << rows, fieldnames, idx, histVars, fetched, failed, ckpts, loaded,
                    lexVars >>

Next ==
    \/ Load
    \/ SkipProcessed
    \/ StripRaises
    \/ SkipNoUrl
    \/ FetchRaises
    \/ ExtractRaises
    \/ FetchAndMerge
    \/ WriteCheckpoint
    \/ Finish

Spec == Init /\ [][Next]_vars

(***************************************************************************)
(* Running the program again (lines 204-205), on the same input table, on  *)
(* the table the run before wrote (as for a resume), or on the table the   *)
(* crawler of src/main.py has written since.                               *)
(***************************************************************************)
InitRerun ==
    \E cols \in {PageCols} :
        \E table \in {NoFile} \cup SmallTables \cup LongTables(cols[PageA]) :
            StartOn(table, cols)

\* The program is started again, whatever the end of the run before
\* (complete, ended by an exception, given up for want of the input file):
\* on the input as it is (h "same"), on the output file put in the place of
\* the input (h "output": the table the run before wrote, whole or up to
\* the row writerows refused, else "old output", the file an earlier run
\* left), or on the input the crawler has written since (h "crawled").
Restart(h) ==
    /\ pc \in CASE h = "same" -> {"done", "crashed", "aborted"}
              [] h = "output" -> {"done", "crashed", "aborted", "idle"}
              [] h = "crawled" -> {"idle"}
    /\ h = "output" => files[OUTPUT_CSV].exists
    /\ run < MaxRuns
    /\ run' = run + 1
    /\ how' = IF h = "output" /\ outWrites = 0 THEN "old output" ELSE h
    /\ files' = IF h = "output"
                THEN [files EXCEPT ![INPUT_CSV] = files[OUTPUT_CSV]]
                ELSE files
    /\ runInput' = files'[INPUT_CSV]
    /\ prevFailed' = failed
    /\ prevEnd' = IF pc = "idle" THEN prevEnd ELSE pc
    /\ pc' = "start"
    /\ idx' = 0
    /\ rows' = << >>
    /\ fieldnames' = << >>
    /\ fetched' = << >>
    /\ failed' = {}
    /\ ckpts' = << >>
    /\ outWrites' = 0
    /\ loaded' = << >>
    /\ UNCHANGED << firstLoaded, derived, lexVars >>

\* python finshots_final.py, once more
RerunSame == Restart("same")

\* the enriched output is put in the place of the input, and the program
\* is run on it
RerunOnOutput == Restart("output")

\* the articles the crawler can collect: fetch_article gives each a url
\* and a title, and a date and a theme or None in their place
Articles ==
    { [url |-> Str(UrlArchive), date |-> Str("2024-01-01"), theme |-> NoneCell,
       title |-> Str("t")],
      [url |-> Str("https://finshots.in/archive/b"), date |-> NoneCell,
       theme |-> Str("MARKETS"), title |-> Str("u")] }

\* the tables the crawler can write: a row per article collected, no url
\* twice
CrawlTables ==
    UNION { { [exists |-> TRUE, fieldnames |-> keys,
               rows |-> [ i \in 1..n |-> CrawlRow(results[i]) ]] :
              results \in { r \in [1..n -> Articles] :
                              \A i, j \in 1..n : i # j => r[i].url # r[j].url } } :
            n \in 0..MaxCrawlRows }

\* src/main.py, main (lines 147-195), run when finshots_final.py is not
\* running: unless robots.txt disallows the site (lines 148-150), it
\* overwrites the input file with the table of the articles collected
Crawl ==
    /\ pc \in {"done", "aborted", "crashed"}
    /\ run < MaxRuns
    /\ \E allowed \in BOOLEAN :
         IF allowed
         THEN \E table \in CrawlTables : files' = [files EXCEPT ![INPUT_CSV] = table]
         ELSE files' = files
    /\ pc' = "idle"
    /\ prevEnd' = pc
    /\ UNCHANGED << rows, fieldnames, idx, run, how, runInput, firstLoaded,
                    prevFailed, derived, fetched, failed, ckpts, outWrites, loaded,
                    lexVars >>

\* python finshots_final.py, after the crawler
RerunCrawled == Restart("crawled")

NextRerun == Next \/ RerunSame \/ RerunOnOutput \/ Crawl \/ RerunCrawled

SpecRerun == InitRerun /\ [][NextRerun]_vars

(***************************************************************************)
(* estimate_syllables called on the words over a small alphabet            *)
(***************************************************************************)
SyllableAlphabet == {"a", "e", "y", "t", "E", "1"}

RECURSIVE WordsOfLen(_)
WordsOfLen(n) ==
    IF n = 0 THEN {""}
    ELSE { w \o c : w \in WordsOfLen(n - 1), c \in SyllableAlphabet }

SyllableWords ==
    {"simple", "the", ""} \cup UNION { WordsOfLen(n) : n \in 0..MaxWordLen }

InitLex ==
    /\ files = [ f \in FileNames |-> NoFile ]
    /\ rows = << >>
    /\ fieldnames = << >>
    /\ idx = 0
    /\ pc = "idle"
    /\ run = 1
    /\ how = "first"
    /\ fetched = << >>
    /\ failed = {}
    /\ ckpts = << >>
    /\ outWrites = 0
    /\ loaded = << >>
    /\ runInput = NoFile
    /\ firstLoaded = << >>
    /\ prevFailed = {}
    /\ prevEnd = "none"
    /\ derived = << >>
    /\ sylWord \in SyllableWords
    /\ sylResult = 0
    /\ lexpc = "call"

CallSyllables ==
    /\ lexpc = "call"
    /\ sylResult' = estimate_syllables(sylWord)
    /\ lexpc' = "ret"
    /\ UNCHANGED << files, rows, fieldnames, idx, pc, histVars, fetched, failed,
                    ckpts, outWrites, loaded, sylWord >>

NextLex == CallSyllables

SpecLex == InitLex /\ [][NextLex]_vars

(***************************************************************************)
(* The properties                                                          *)
(***************************************************************************)
\* the content field of row i as the run loaded it
ContentAtLoad(i) ==
    IF "content_simple" \in DOMAIN loaded[i] THEN loaded[i]["content_simple"].s
    ELSE ""

\* the url field of the row is a text that is empty or white space
BlankUrl(row) ==
    /\ "url" \in DOMAIN row
    /\ row["url"].ty = "str"
    /\ \A j \in 1..Len(row["url"].s) : Ch(row["url"].s, j) \in SpaceSet

\* the url field of the row is a text with a character that is not white
\* space
HasUrl(row) ==
    /\ "url" \in DOMAIN row
    /\ row["url"].ty = "str"
    /\ \E j \in 1..Len(row["url"].s) : Ch(row["url"].s, j) \notin SpaceSet

\* the rows the loop has gone past
Passed ==
    IF Len(fetched) > 0 /\ fetched[Len(fetched)] = idx + 1 THEN idx + 1 ELSE idx

Ascending(seq) == \A j, k \in 1..Len(seq) : j < k => seq[j] < seq[k]

\* row i, as it is now, is row i of the checkpoint file
InCheckpoint(i) ==
    /\ files[CHECKPOINT_CSV].exists
    /\ i <= Len(files[CHECKPOINT_CSV].rows)
    /\ files[CHECKPOINT_CSV].rows[i] = CsvRow(fieldnames, rows[i])

\* the records fetched and merged in this run that the checkpoint lacks
Unsaved == Cardinality({ k \in 1..Len(fetched) : ~InCheckpoint(fetched[k]) })

\* C1: a checkpoint is written exactly after the 10th, 20th, 30th, ...
\* record fetched in this run and at no other time: the k-th write comes
\* when 10 * k records have been fetched, and but for the moment between
\* a merge and the write it triggers, a run that has fetched n records has
\* written floor(n / 10) checkpoints.
C1_CheckpointAfterEveryTenthFetched ==
    /\ \A k \in 1..Len(ckpts) : ckpts[k] = CheckpointEvery * k
    /\ pc \in {"loop", "done"} => Len(ckpts) = Len(fetched) \div CheckpointEvery

\* C2: wherever the run can be interrupted, at most 9 records fetched and
\* merged in this run are missing from the last checkpoint written; 10
\* only between merging the tenth and writing the checkpoint.
C2_AtMostNineUnsaved ==
    /\ pc = "loop" => Unsaved <= CheckpointEvery - 1
    /\ pc = "checkpoint" => Unsaved <= CheckpointEvery

\* C3, as claimed: a run on the table that the run before, complete,
\* wrote performs no fetch and changes no record.
C3_SecondRunDoesNothing ==
    (how = "output" /\ prevEnd = "done" /\ pc = "done")
        => (fetched = << >> /\ rows = loaded)

\* C3, amended: at every point of a run on the table that the run before,
\* complete, wrote, whether this run goes on, is complete or was ended by
\* an exception, the records fetched so far are exactly the records the
\* loop has gone past whose content is still empty and whose url is not
\* blank, and no other record is changed; so a run that is complete has
\* fetched every such record, and does nothing when there is none.
C3_SecondRunFetchesOnlyEmpty ==
    (how = "output" /\ prevEnd = "done"
     /\ pc \in {"loop", "checkpoint", "done", "crashed"})
        => LET due == { i \in 1..Passed :
                          ContentAtLoad(i) = "" /\ HasUrl(loaded[i]) }
           IN  /\ Range(fetched) = due
               /\ \A i \in (1..Len(rows)) \ due : rows[i] = loaded[i]
               /\ Len(rows) = Len(loaded)
               /\ pc = "done" => Passed = Len(loaded)

\* a second run over the output of a first run that fetched every record
\* with success: nothing is fetched, nothing changes
C3_Witness ==
    /\ run = 2 /\ how = "output" /\ prevEnd = "done" /\ pc = "done"
    /\ Len(rows) >= 2
    /\ prevFailed = {}
    /\ \A i \in 1..Len(rows) : ContentAtLoad(i) # ""
    /\ fetched = << >>
    /\ rows = loaded

\* C4, as claimed: a record with content at load is never fetched nor
\* changed, and a completed run has fetched exactly the records whose
\* content was empty at load, in table order.
C4_FetchedAreTheEmptyOnes ==
    /\ \A i \in 1..Len(loaded) :
         ContentAtLoad(i) # "" => (i \notin Range(fetched) /\ rows[i] = loaded[i])
    /\ pc = "done" =>
         /\ Range(fetched) = { i \in 1..Len(loaded) : ContentAtLoad(i) = "" }
         /\ Ascending(fetched)

\* C4, amended: a record with content at load is never fetched nor
\* changed, and at every point of a run the records fetched so far are
\* exactly the rows the loop has gone past whose content was empty and
\* whose url was not blank at load, in table order.
C4_FetchedAreTheEmptyOnesWithUrl ==
    pc \in {"loop", "checkpoint", "done", "crashed"} =>
        /\ \A i \in 1..Len(loaded) :
             ContentAtLoad(i) # "" => (i \notin Range(fetched) /\ rows[i] = loaded[i])
        /\ Range(fetched) = { i \in 1..Passed :
                                ContentAtLoad(i) = "" /\ HasUrl(loaded[i]) }
        /\ Ascending(fetched)

\* rows 1-4 of 10 had content at load: the run fetched rows 5-10 only
C4_Witness ==
    /\ pc = "done"
    /\ Len(loaded) = 10
    /\ \A i \in 1..4 : ContentAtLoad(i) # "" /\ rows[i] = loaded[i]
    /\ fetched = << 5, 6, 7, 8, 9, 10 >>

\* C5, as claimed: a record whose fetch failed has empty content, is not
\* fetched again in the run, and is not fetched by a later run over the
\* table this run wrote.
C5_FailedNeverFetchedAgain ==
    /\ \A j, k \in 1..Len(fetched) : j # k => fetched[j] # fetched[k]
    /\ \A i \in failed : rows[i]["content_simple"] = Str("")
    /\ how = "output" => \A k \in 1..Len(fetched) : fetched[k] \notin prevFailed

\* C5, amended: a record whose fetch failed has empty content and is not
\* fetched again in the run (a run fetches a record at most once); a later
\* run over the table this run wrote (whole, or as far as it was written
\* when the write raised) fetches it again when its loop comes to it, its
\* content being empty: at every point of the later run, every record that
\* failed in the run before and that the loop has gone past has been
\* fetched, and a later run that is complete has fetched every one in its
\* table.
C5_FailedFetchedAgainByRerun ==
    /\ \A j, k \in 1..Len(fetched) : j # k => fetched[j] # fetched[k]
    /\ \A i \in failed : rows[i]["content_simple"] = Str("")
    /\ how = "output" =>
         /\ \A i \in prevFailed : i <= Passed => i \in Range(fetched)
         /\ pc = "done" =>
              \A i \in prevFailed : i <= Len(loaded) => i \in Range(fetched)

\* a fetch failed in the first run, and the second run, over its output,
\* has fetched that record again, this time with success
C5_Witness ==
    /\ run = 2 /\ how = "output" /\ pc = "done"
    /\ prevFailed # {}
    /\ prevFailed \subseteq Range(fetched)
    /\ \A i \in prevFailed : ContentAtLoad(i) = "" /\ rows[i]["content_simple"] # Str("")

\* C6: whatever fetches fail, the run of a table that was found does not
\* abort, and when it is complete it has written the final output once.
C6_NoFetchFailureAbortsTheRun ==
    /\ pc # "crashed"
    /\ pc = "done" => outWrites = 1

\* C7: the step taken at a record not yet processed whose url is blank
\* (a text that is empty or white space only) fetches nothing, sets the
\* seven derived fields of that record to the empty string and changes
\* nothing else of the table.
C7_BlankUrlIsBlanked ==
    [][ ( /\ pc = "loop" /\ idx < Len(rows)
          /\ Get(rows[idx + 1], "content_simple").s = ""
          /\ BlankUrl(rows[idx + 1]) )
        => ( /\ fetched' = fetched
             /\ DOMAIN rows' = DOMAIN rows
             /\ \A i \in DOMAIN rows : i # idx + 1 => rows'[i] = rows[i]
             /\ DOMAIN rows'[idx + 1] = DOMAIN rows[idx + 1] \cup Range(new_cols)
             /\ \A c \in DOMAIN rows'[idx + 1] :
                  rows'[idx + 1][c] = IF c \in Range(new_cols) THEN Str("")
                                      ELSE rows[idx + 1][c] ) ]_vars

\* a row of the crawler's table with a blank url has been gone past: it
\* was not fetched and has its seven derived fields, all empty
C7_Witness ==
    \E i \in 1..Passed :
        /\ "content_simple" \notin DOMAIN loaded[i]
        /\ BlankUrl(loaded[i])
        /\ i \notin Range(fetched)
        /\ \A c \in Range(new_cols) : rows[i][c] = Str("")
        /\ rows[i]["title"] = loaded[i]["title"]

\* the cells of row i of the final output
Persisted(i) == files[OUTPUT_CSV].rows[i]

\* a fresh row of url "http://x/a" whose fetch succeeded
FetchedPageA(i) ==
    /\ i \in Range(fetched) \ failed
    /\ loaded[i]["url"].s = "http://x/a"

\* C8, as claimed: the persisted record of a fresh row of url "http://x/a",
\* whose fetch returns <article><p>Good growth, strong profit.</p></article>,
\* has word_count 5, sentiment 1.0 and reading_time_min 0.03.
C8_FiveWords ==
    pc = "done" =>
        \A i \in 1..Len(rows) : FetchedPageA(i) =>
            /\ Persisted(i)["word_count"].s = "5"
            /\ Persisted(i)["sentiment_simple"].s = "1.0"
            /\ Persisted(i)["reading_time_min"].s = "0.03"

\* C8, amended: that record has word_count 4 (the tokens good, growth,
\* strong, profit), sentiment 1.0 and reading_time_min 0.02.
C8_FourWords ==
    pc = "done" =>
        \A i \in 1..Len(rows) : FetchedPageA(i) =>
            /\ rows[i]["word_count"] = IntCell(4)
            /\ rows[i]["sentiment_simple"] = FloatCell([neg |-> FALSE, n |-> 1000])
            /\ rows[i]["reading_time_min"] = FloatCell([neg |-> FALSE, n |-> 20])
            /\ Persisted(i)["word_count"].s = "4"
            /\ Persisted(i)["sentiment_simple"].s = "1.0"
            /\ Persisted(i)["reading_time_min"].s = "0.02"

\* the run of the table of one fresh row of url "http://x/a" is complete
C8_Witness ==
    /\ pc = "done"
    /\ Len(loaded) = 1
    /\ "content_simple" \notin DOMAIN loaded[1]
    /\ FetchedPageA(1)
    /\ Persisted(1)["content_simple"].s = "Good growth, strong profit."

\* the positions of the letters of w
Letters(w) == { i \in 1..Len(w) : Ch(w, i) \in LowerSet \cup UpperSet }

VowelAt(w, i) == LowerCh(Ch(w, i)) \in {"a", "e", "i", "o", "u", "y"}

\* the positions where a run of vowels starts, non-letters left out
VowelRunStarts(w) ==
    { i \in Letters(w) :
        /\ VowelAt(w, i)
        /\ \A j \in Letters(w) :
             (j < i /\ \A k \in Letters(w) : ~(j < k /\ k < i)) => ~VowelAt(w, j) }

\* the rule of the claim: a syllable per vowel run, one less for a final
\* "e" when there are several, at least 1, and 0 for a word without letters
SyllableRule(w) ==
    IF Letters(w) = {} THEN 0
    ELSE LET n == Cardinality(VowelRunStarts(w))
             m == IF LowerCh(Ch(w, Max(Letters(w)))) = "e" /\ n > 1 THEN n - 1 ELSE n
         IN  IF m < 1 THEN 1 ELSE m

\* C9, as claimed: estimate_syllables follows the rule, and gives 2 for
\* "simple", 1 for "the" and 0 for "".
C9_SimpleHasTwo ==
    lexpc = "ret" =>
        /\ sylResult = SyllableRule(sylWord)
        /\ sylWord = "simple" => sylResult = 2
        /\ sylWord = "the" => sylResult = 1
        /\ sylWord = "" => sylResult = 0

\* C9, amended: estimate_syllables follows the rule, and gives 1 for
\* "simple" (two vowel runs, less one for the final "e"), 1 for "the" and
\* 0 for "".
C9_SimpleHasOne ==
    lexpc = "ret" =>
        /\ sylResult = SyllableRule(sylWord)
        /\ sylWord = "simple" => sylResult = 1
        /\ sylWord = "the" => sylResult = 1
        /\ sylWord = "" => sylResult = 0

\* estimate_syllables("simple") has returned
C9_Witness == lexpc = "ret" /\ sylWord = "simple" /\ sylResult = 1

\* C10: a run never writes the input table: during the run and after it,
\* however it ended, until the crawler runs, the stored input is what it
\* was when the run started, and any later run of the same input, after a
\* run that was complete or one that was not, loads the records the first
\* run of that input loaded.
C10_InputNeverWritten ==
    /\ pc # "idle" => files[INPUT_CSV] = runInput
    /\ (how = "same" /\ pc \in {"loop", "checkpoint", "done", "crashed"})
           => loaded = firstLoaded

\* the third run, of the same input as the run before it, which an
\* exception ended, is complete: it fetched, the output is written, and
\* the input is as it was
C10_Witness ==
    /\ run = 3 /\ how = "same" /\ prevEnd = "crashed" /\ pc = "done"
    /\ Len(loaded) >= 2
    /\ fetched # << >>
    /\ files[OUTPUT_CSV].exists
    /\ files[OUTPUT_CSV].rows # files[INPUT_CSV].rows
    /\ loaded = firstLoaded

====
